---- MODULE Spec2Model ----
(***************************************************************************)
(* Model of the LinkedU RAG-optimisation pipelines:                        *)
(*   - the article pipeline   (RAGOptimizer, rag_optimizer.py)             *)
(*   - the subject pipeline   (LinkeduSubjectScraper.optimize_for_rag)     *)
(*   - the school pipeline    (SchoolRAGOptimizer / LinkedUSchoolScraper)  *)
(*                                                                         *)
(* Text of the article and school pipelines is a sequence of Unicode code  *)
(* points (naturals).  Text of the subject pipeline, whose chunking        *)
(* threshold is 1000 characters, is run-length encoded: a sequence of      *)
(* <<code point, count>> runs in which adjacent runs differ.               *)
(* Non-ASCII literals are written as code points; the comments give the    *)
(* characters as \uXXXX escapes.                                           *)
(***************************************************************************)
EXTENDS Integers, Sequences, FiniteSets, TLC

(***************************************************************************)
(* Bounds of the model.                                                    *)
(***************************************************************************)
MaxBatch == 2

\* the longest batch of subjects
MaxSubjects == 2

\* the longest list of schools
MaxSchools == 2

\* the longest body built from sections of every kind
MaxSections == 3

\* the number of sections of the long bodies
ManySections == 6

\* the longest text in tokens
MaxTokens == 4

\* the longest string given to the normalizations
MaxLen == 4

\* the most parts a subject content is joined from
MaxSentences == 3

\* the most rounds of words a text of frequent words has
MaxRounds == 4

\* the matches one level of the scan of a text finds
BlockSize == 8

\* the listing pages the site has, and the greatest max_pages
MaxPages == 2

(***************************************************************************)
(* Generic sequence helpers.                                               *)
(***************************************************************************)
Range(f) == {f[k] : k \in DOMAIN f}

\* the least element of a non-empty set of numbers
MinOf(S) == CHOOSE x \in S : \A y \in S : x <= y

Drop(s, n) == SubSeq(s, n + 1, Len(s))

Take(s, n) == SubSeq(s, 1, IF n < Len(s) THEN n ELSE Len(s))

\* s[i..] starts with p
StartsWithAt(s, i, p) ==
    /\ i + Len(p) - 1 <= Len(s)
    /\ \A k \in 1..Len(p) : s[i + k - 1] = p[k]

\* Python: p in s
Contains(s, p) == \E i \in 1..(Len(s) + 1) : StartsWithAt(s, i, p)

RECURSIVE Concat(_)
Concat(ss) == IF ss = <<>> THEN <<>> ELSE Head(ss) \o Concat(Tail(ss))

\* lexicographic order on code point sequences (Python's str ordering)
RECURSIVE StrLess(_, _)
StrLess(a, b) ==
    IF b = <<>> THEN FALSE
    ELSE IF a = <<>> THEN TRUE
    ELSE IF Head(a) # Head(b) THEN Head(a) < Head(b)
    ELSE StrLess(Tail(a), Tail(b))

\* Python: sorted(list(S)) for a set S of strings
RECURSIVE SortedStrs(_)
SortedStrs(S) ==
    IF S = {} THEN <<>>
    ELSE LET m == CHOOSE x \in S : \A y \in S \ {x} : StrLess(x, y)
         IN  <<m>> \o SortedStrs(S \ {m})

(***************************************************************************)
(* Character classes of Python's re module on str patterns.                *)
(***************************************************************************)
\* \s : str.isspace()
WhitespaceChars ==
    {9, 10, 11, 12, 13, 28, 29, 30, 31, 32, 133, 160, 5760}
        \cup (8192..8202) \cup {8232, 8233, 8239, 8287, 12288}

IsSpace(c) == c \in WhitespaceChars

IsDigit(c) == c \in 48..57

IsUpper(c) == c \in 65..90

IsLatin(c) == c \in (65..90) \cup (97..122)

\* [\u4e00-\u9fff]
IsCJK(c) == c \in 19968..40959

\* \w restricted to the scripts of the model's alphabet: ASCII letters,
\* digits, underscore and the CJK unified ideographs.
IsWordChar(c) ==
    \/ IsLatin(c) \/ IsDigit(c) \/ c = 95
    \/ c \in 13312..19903 \/ IsCJK(c)

\* str.lower() on the model's alphabet
LowerChar(c) == IF IsUpper(c) THEN c + 32 ELSE c

Lower(s) == [k \in 1..Len(s) |-> LowerChar(s[k])]

\* length of the longest prefix of s made of characters of C
SpanLen(s, C) ==
    CHOOSE n \in 0..Len(s) :
        /\ n = Len(s) \/ s[n + 1] \notin C
        /\ \A p \in 1..n : s[p] \in C

\* length of the longest suffix of s made of characters of C
SpanLenBack(s, C) ==
    CHOOSE n \in 0..Len(s) :
        /\ n = Len(s) \/ s[Len(s) - n] \notin C
        /\ \A p \in 1..n : s[Len(s) + 1 - p] \in C

\* position of the first character of s that is in C, Len(s) + 1 if none
IndexOfAny(s, C) ==
    CHOOSE p \in 1..(Len(s) + 1) :
        /\ p = Len(s) + 1 \/ s[p] \in C
        /\ \A q \in 1..(p - 1) : s[q] \notin C

\* str.lstrip()
LStrip(s) == Drop(s, SpanLen(s, WhitespaceChars))

\* str.rstrip()
RStrip(s) == SubSeq(s, 1, Len(s) - SpanLenBack(s, WhitespaceChars))

\* str.strip()
Strip(s) == RStrip(LStrip(s))

\* re.sub(r'\s+', ' ', s): the first character of every whitespace run
\* becomes a space, the rest of the run goes
CollapseKept(s, kept) ==
    [j \in 1..Len(kept) |-> IF IsSpace(s[kept[j]]) THEN 32 ELSE s[kept[j]]]

CollapseWhitespace(s) ==
    CollapseKept(s, SelectSeq([k \in 1..Len(s) |-> k],
                              LAMBDA k : ~IsSpace(s[k]) \/ k = 1 \/ ~IsSpace(s[k - 1])))

\* position of the first occurrence of p in s, Len(s) + 1 if none
IndexOf(s, p) ==
    MinOf({i \in 1..Len(s) : StartsWithAt(s, i, p)} \cup {Len(s) + 1})

\* str.split(sep) for a non-empty separator
RECURSIVE SplitOn(_, _)
SplitAt(s, sep, i) ==
    IF i > Len(s) THEN <<s>>
    ELSE <<SubSeq(s, 1, i - 1)>> \o SplitOn(Drop(s, i + Len(sep) - 1), sep)

SplitOn(s, sep) == SplitAt(s, sep, IndexOf(s, sep))

(***************************************************************************)
(* RAGOptimizer._clean_text                                                *)
(***************************************************************************)
\* the sentence punctuation \uff0c \u3002 \uff01 \uff1f \uff1b \uff1a
SentencePunct == {65292, 12290, 65281, 65311, 65307, 65306}

\* The characters the class [^...] of line 113 does NOT replace.  The class
\* is written with five-digit \u escapes, which Python reads as a four-digit
\* escape followed by a digit, so that '0-\u2a6d' etc. are ranges starting at
\* the digit 0; the quote characters '' end and reopen the string literal and
\* are not part of the class.
KeptByClean(c) ==
    \/ IsWordChar(c) \/ IsSpace(c)
    \/ c \in 19968..40959          \* \u4e00-\u9fff
    \/ c \in 13312..19903          \* \u3400-\u4dbf
    \/ c = 8192                    \*
    \/ c \in 48..10861             \* 0-\u2a6d
    \/ c = 102                     \* f
    \/ c = 10864                   \* \u2a70
    \/ c \in 48..11123             \* 0-\u2b73
    \/ c = 11124                   \* \u2b74
    \/ c \in 48..11137             \* 0-\u2b81
    \/ c = 11138                   \* \u2b82
    \/ c \in 48..11498             \* 0-\u2cea
    \/ c \in 63744..64255          \* \uf900-\ufaff
    \/ c \in 13056..13311          \* \u3300-\u33ff
    \/ c \in 65072..65103          \* \ufe30-\ufe4f
    \/ c = 12160                   \* \u2f80
    \/ c \in 48..12193             \* 0-\u2fa1
    \/ c \in SentencePunct
    \/ c = 34                      \* "
    \/ c \in {65288, 65289, 12304, 12305, 12298, 12299, 12289}

\* re.sub(r'[^...]', ' ', s)
ReplaceArtifacts(s) == [k \in 1..Len(s) |-> IF KeptByClean(s[k]) THEN s[k] ELSE 32]

\* re.sub(r'\s*[<punct>]\s*', '\uff0c', s): leftmost, greedy, non-overlapping.
\* Every match holds exactly one punctuation mark, with the whitespace
\* before it and after it.
RECURSIVE NormalizePunct(_)
NormalizePunctAt(s, p) ==
    IF p > Len(s) THEN s
    ELSE RStrip(SubSeq(s, 1, p - 1)) \o <<65292>>
             \o NormalizePunct(LStrip(Drop(s, p)))

NormalizePunct(s) == NormalizePunctAt(s, IndexOfAny(s, SentencePunct))

\* the normalization without its last two steps
CleanWithoutLastStrip(text) ==
    IF text = <<>> THEN <<>>
    ELSE NormalizePunct(ReplaceArtifacts(CollapseWhitespace(Strip(text))))

RAG_clean_text(text) ==
    IF text = <<>> THEN <<>>
    ELSE Strip(CollapseWhitespace(NormalizePunct(
             ReplaceArtifacts(CollapseWhitespace(Strip(text))))))

(***************************************************************************)
(* RAGOptimizer.__init__: the stopword set (134 distinct entries).         *)
(***************************************************************************)
stopwords ==
    {
     <<19968>>, <<19968, 20491>>, <<19968, 33324>>, <<19978>>,
     <<19981>>, <<19981, 21487, 33021>>, <<19981, 21516>>, <<20027, 35201>>,
     <<20063>>, <<20102>>, <<20154>>, <<20294, 26159>>,
     <<20302, 30340>>, <<20316, 29992>>, <<20320>>, <<20351, 29992>>,
     <<20801, 35377>>, <<20855, 39636>>, <<20986, 29694>>, <<21033, 29992>>,
     <<21040>>, <<21109, 36896>>, <<21253, 25324>>, <<21435>>,
     <<21462, 24471>>, <<21487, 20197>>, <<21487, 33021>>, <<21644>>,
     <<21839, 38988>>, <<22240, 28858>>, <<22256, 38627>>, <<22312>>,
     <<22320, 26041>>, <<22522, 26412>>, <<22686, 21152>>, <<22750, 30340>>,
     <<22810, 30340>>, <<22823, 30340>>, <<22833, 25943>>, <<22909>>,
     <<22909, 30340>>, <<22914, 26524>>, <<23416, 32722>>, <<23433, 25490>>,
     <<23436, 25104>>, <<23481, 26131>>, <<23526, 29694>>, <<23565, 26044>>,
     <<23567, 30340>>, <<23569, 30340>>, <<23588, 20854>>, <<23601>>,
     <<24037, 20316>>, <<24050, 32147>>, <<24076, 26395>>, <<24314, 31435>>,
     <<24418, 25104>>, <<24433, 38911>>, <<24456>>, <<24517, 38920>>,
     <<24773, 27841>>, <<24819, 35201>>, <<25033, 30070>>, <<25033, 35442>>,
     <<25104, 21151>>, <<25105>>, <<25152, 20197>>, <<25353, 29031>>,
     <<25505, 29992>>, <<25552, 39640>>, <<25913, 35722>>, <<26032, 30340>>,
     <<26041, 27861>>, <<26159>>, <<26178, 20505>>, <<26178, 38291>>,
     <<26371>>, <<26377>>, <<26681, 25818>>, <<27491, 30906>>,
     <<27604, 36611>>, <<27770, 23450>>, <<27794, 26377>>, <<28187, 23569>>,
     <<28310, 20633>>, <<28961, 27861>>, <<28982, 24460>>, <<29305, 21029>>,
     <<29305, 27530>>, <<29554, 24471>>, <<29983, 27963>>, <<29986, 29983>>,
     <<30332, 23637>>, <<30332, 29694>>, <<30340>>, <<30456, 21516>>,
     <<30475>>, <<30693, 36947>>, <<30701, 30340>>, <<30906, 23450>>,
     <<31105, 27490>>, <<31777, 21934>>, <<32879, 32363>>, <<33021, 22816>>,
     <<33258, 24049>>, <<33290, 30340>>, <<33879>>, <<35079, 38620>>,
     <<35201>>, <<35258, 24471>>, <<35336, 21123>>, <<35443, 32048>>,
     <<35469, 28858>>, <<35498>>, <<36889>>, <<36889, 20491>>,
     <<36890, 36942>>, <<36914, 34892>>, <<36948, 21040>>, <<36984, 25799>>,
     <<36996, 26159>>, <<37027>>, <<37027, 20491>>, <<37117>>,
     <<37325, 35201>>, <<37679, 35492>>, <<38263, 30340>>, <<38283, 22987>>,
     <<38364, 20418>>, <<38364, 26044>>, <<38500, 20102>>, <<38614, 28982>>,
     <<38656, 35201>>, <<39640, 30340>>
    }

(***************************************************************************)
(* Number formatting.                                                      *)
(***************************************************************************)
\* str(n) for n >= 0
RECURSIVE Decimal(_)
Decimal(n) ==
    IF n < 10 THEN <<48 + n>> ELSE Decimal(n \div 10) \o <<48 + (n % 10)>>

\* f"{n:04d}"
Pad4(n) ==
    LET d == Decimal(n)
    IN  IF Len(d) >= 4 THEN d ELSE [k \in 1..(4 - Len(d)) |-> 48] \o d

\* length of the longest prefix of s without a newline: [^\n]*
LineLen(s) == IndexOfAny(s, {10}) - 1

\* s[:n] + "..." if len(s) > n else s
Ellipsis(s, n) == IF Len(s) > n THEN Take(s, n) \o <<46, 46, 46>> ELSE s

(***************************************************************************)
(* RAGOptimizer._create_semantic_chunks                                    *)
(***************************************************************************)
MinSectionLen == 50

MinParagraphLen == 30

\* a match of r'\n##\s+' starts at s[i]
SectionMarkAt(s, i) ==
    /\ StartsWithAt(s, i, <<10, 35, 35>>)
    /\ i + 3 <= Len(s)
    /\ IsSpace(s[i + 3])

\* re.split(r'\n##\s+', s)
RECURSIVE SplitSections(_)
SplitSectionsAt(s, i) ==
    IF i > Len(s) THEN <<s>>
    ELSE <<SubSeq(s, 1, i - 1)>> \o SplitSections(LStrip(Drop(s, i + 2)))

SplitSections(s) ==
    SplitSectionsAt(s, MinOf({i \in 1..Len(s) : SectionMarkAt(s, i)} \cup {Len(s) + 1}))

\* lines[0].strip()
SectionHeading(section) == Strip(Take(section, LineLen(section)))

\* '\n'.join(lines[1:]).strip() if len(lines) > 1 else section.strip()
SectionContent(section) ==
    IF LineLen(section) < Len(section)
    THEN Strip(Drop(section, LineLen(section) + 1))
    ELSE Strip(section)

\* [p.strip() for p in text.split('\n\n') if p.strip()]
StripAll(parts) == [k \in 1..Len(parts) |-> Strip(parts[k])]

Paragraphs(text) ==
    SelectSeq(StripAll(SplitOn(text, <<10, 10>>)), LAMBDA p : p # <<>>)

\* f"chunk_{i}_{j}" if j > 0 else f"chunk_{i}"
ChunkId(i, j) ==
    IF j > 0
    THEN <<99, 104, 117, 110, 107, 95>> \o Decimal(i) \o <<95>> \o Decimal(j)
    ELSE <<99, 104, 117, 110, 107, 95>> \o Decimal(i)

\* f"{title} - {heading}" if heading else title
ChunkContext(title, heading) ==
    IF heading # <<>> THEN title \o <<32, 45, 32>> \o heading ELSE title

\* the chunks of the paragraphs of section number i (0-based) of the split
ParagraphChunks(paragraphs, i, title, heading) ==
    SelectSeq([j \in 1..Len(paragraphs) |->
                  [id |-> ChunkId(i, j - 1),
                   heading |-> heading,
                   content |-> paragraphs[j],
                   context |-> ChunkContext(title, heading),
                   length |-> Len(paragraphs[j])]],
              LAMBDA c : ~(Len(c.content) < MinParagraphLen))

\* the section loop without the test of the section's length
SectionChunksOfAnyLength(section, i, title) ==
    IF Strip(section) = <<>> THEN <<>>
    ELSE ParagraphChunks(Paragraphs(SectionContent(section)), i, title,
                         SectionHeading(section))

SectionChunks(section, i, title) ==
    IF Strip(section) = <<>> THEN <<>>
    ELSE IF Len(SectionContent(section)) < MinSectionLen THEN <<>>
    ELSE ParagraphChunks(Paragraphs(SectionContent(section)), i, title,
                         SectionHeading(section))

AllSectionChunks(sections, title) ==
    Concat([i \in 1..Len(sections) |-> SectionChunks(sections[i], i - 1, title)])

\* the two loops without the tests of the section's and the paragraph's length
ParagraphChunksOfAnyLength(paragraphs, n, title, heading) ==
    [j \in 1..Len(paragraphs) |->
        [id |-> ChunkId(n, j - 1),
         heading |-> heading,
         content |-> paragraphs[j],
         context |-> ChunkContext(title, heading),
         length |-> Len(paragraphs[j])]]

ChunksOfAnyLength(content, title) ==
    Concat([n \in 1..Len(SplitSections(content)) |->
               ParagraphChunksOfAnyLength(
                   Paragraphs(SectionContent(SplitSections(content)[n])),
                   n - 1, title, SectionHeading(SplitSections(content)[n]))])

RAG_create_semantic_chunks(content, title) ==
    AllSectionChunks(SplitSections(content), title)

(***************************************************************************)
(* RAGOptimizer._extract_comprehensive_topics                              *)
(***************************************************************************)
\* the delimiters of r'[<fullwidth dot><middle dot>,<fullwidth comma>\s]+'
CategoryDelims == {65294, 183, 44, 65292} \cup WhitespaceChars

\* re.split(<delimiters>+, s), as the sequence of pieces
RECURSIVE SplitCategories(_)
SplitCategoriesAt(s, n) ==
    IF n > Len(s) THEN <<s>>
    ELSE <<SubSeq(s, 1, n - 1)>> \o
         SplitCategories(Drop(s, n - 1 + SpanLen(Drop(s, n - 1), CategoryDelims)))

SplitCategories(s) == SplitCategoriesAt(s, IndexOfAny(s, CategoryDelims))

\* the alternatives of each pattern of education_patterns, in order
education_patterns ==
    << << <<22823, 23416>>, <<23416, 38498>>, <<23416, 26657>> >>,
       << <<23416, 31185>>, <<23560, 26989>>, <<35506, 31243>> >>,
       << <<20837, 23416>>, <<30003, 35531>>, <<37636, 21462>> >>,
       << <<23416, 36027>>, <<29518, 23416, 37329>>, <<36039, 21161>> >>,
       << <<28023, 22806>>, <<30041, 23416>>, <<36938, 23416>> >>,
       << <<33521, 22283>>, <<32654, 22283>>, <<21152, 25343, 22823>>,
          <<28595, 27954>>, <<26032, 35199, 34349>> >>,
       \* (IELTS|TOEFL|SAT|A-Level|IB)
       << <<73, 69, 76, 84, 83>>, <<84, 79, 69, 70, 76>>, <<83, 65, 84>>,
          <<65, 45, 76, 101, 118, 101, 108>>, <<73, 66>> >>,
       << <<30889, 22763>>, <<23416, 22763>>, <<21338, 22763>> >>,
       << <<21319, 23416>>, <<36681, 26657>>, <<37532, 25509>> >>,
       << <<31805, 35657>>, <<31227, 27665>> >> >>

\* re.findall(r'(a1|a2|...)', s): leftmost, first alternative first,
\* non-overlapping
RECURSIVE FindAllAlt(_, _)
FindAllAltAt(alts, s, i) ==
    IF i > Len(s) THEN <<>>
    ELSE LET k == MinOf({k \in 1..Len(alts) : StartsWithAt(s, i, alts[k])})
         IN  <<alts[k]>> \o FindAllAlt(alts, Drop(s, i + Len(alts[k]) - 1))

FindAllAlt(alts, s) ==
    FindAllAltAt(alts, s,
        MinOf({i \in 1..Len(s) : \E k \in 1..Len(alts) : StartsWithAt(s, i, alts[k])}
                  \cup {Len(s) + 1}))

\* text_to_analyze = f"{title} {content}".lower()
TextToAnalyze(title, content) == Lower(title \o <<32>> \o content)

\* the topics taken from the category labels
CategoryTopics(categories) ==
    IF categories # <<>>
    THEN {Strip(t) : t \in Range(SplitCategories(categories))} \ {<<>>}
    ELSE {}

\* the topics taken from the vocabulary patterns
PatternTopics(text_to_analyze) ==
    UNION {Range(FindAllAlt(education_patterns[p], text_to_analyze)) :
              p \in 1..Len(education_patterns)}

RAG_extract_comprehensive_topics(article) ==
    LET topics == CategoryTopics(article.categories)
                      \cup PatternTopics(TextToAnalyze(article.title, article.content))
        cleaned_topics == {Strip(t) : t \in topics}
    IN  SortedStrs({t \in cleaned_topics :
                       t # <<>> /\ Len(t) > 1 /\ t \notin stopwords})

(***************************************************************************)
(* RAGOptimizer._extract_keywords                                          *)
(***************************************************************************)
TopWords == 20

MinFrequency == 2

important_patterns ==
    <<"acronym", "year", "ranking", "fees", "requirements", "deadlines">>

\* : and its fullwidth form
Colons == {58, 65306}

\* length of the match of <label>[colon][^\n]+ at the start of s, 0 if none
LabelledLen(s, labels) ==
    IF \E l \in labels :
           /\ StartsWithAt(s, 1, l)
           /\ Len(s) > Len(l) + 1
           /\ s[Len(l) + 1] \in Colons
           /\ s[Len(l) + 2] # 10
    THEN LET l == CHOOSE l \in labels : StartsWithAt(s, 1, l)
         IN  Len(l) + 1 + LineLen(Drop(s, Len(l) + 1))
    ELSE 0

\* length of the match of (?:<label>)\s*[colon]\s*[^\n]+ at the start of s:
\* the second \s* gives back whitespace until [^\n]+ can match
FeesLen(s, labels) ==
    IF ~\E l \in labels : StartsWithAt(s, 1, l) THEN 0
    ELSE LET l == CHOOSE l \in labels : StartsWithAt(s, 1, l)
             r1 == Drop(s, Len(l))
             w1 == SpanLen(r1, WhitespaceChars)
         IN  IF ~(w1 < Len(r1) /\ r1[w1 + 1] \in Colons) THEN 0
             ELSE LET r2 == Drop(r1, w1 + 1)
                      w2 == SpanLen(r2, WhitespaceChars)
                      ks == {k \in 0..w2 : k < Len(r2) /\ r2[k + 1] # 10}
                  IN  IF ks = {} THEN 0
                      ELSE LET k == CHOOSE k \in ks : \A j \in ks : j <= k
                           IN  Len(l) + w1 + 1 + k + LineLen(Drop(r2, k))

\* length of the match of the pattern at the start of s, 0 if none
MatchLen(pattern, s) ==
    CASE pattern = "acronym" ->          \* [A-Z]{2,}
             LET n == SpanLen(s, 65..90) IN IF n >= 2 THEN n ELSE 0
      [] pattern = "year" ->             \* \d+<nian>
             LET n == SpanLen(s, 48..57)
             IN  IF n >= 1 /\ n < Len(s) /\ s[n + 1] = 24180 THEN n + 1 ELSE 0
      [] pattern = "ranking" ->          \* <di>\d+
             IF s # <<>> /\ Head(s) = 31532 /\ SpanLen(Tail(s), 48..57) >= 1
             THEN 1 + SpanLen(Tail(s), 48..57) ELSE 0
      [] pattern = "fees" ->
             FeesLen(s, {<<23416, 36027>>, <<36027, 29992>>})
      [] pattern = "requirements" ->
             LabelledLen(s, {<<20837, 23416, 35201, 27714>>,
                             <<30003, 35531, 26781, 20214>>})
      [] pattern = "deadlines" ->
             LabelledLen(s, {<<25130, 27490, 26085, 26399>>,
                             <<30003, 35531, 26399, 38480>>})
      [] pattern = "word" ->             \* [\u4e00-\u9fff]{2,}|[A-Za-z]{3,}
             LET n == SpanLen(s, 19968..40959)
                 m == SpanLen(s, (65..90) \cup (97..122))
             IN  IF n >= 2 THEN n ELSE IF m >= 3 THEN m ELSE 0

\* where the leftmost match starts, Len(s) + 1 if there is none
FirstMatch(pattern, s) ==
    CHOOSE i \in 1..(Len(s) + 1) :
        /\ i = Len(s) + 1 \/ MatchLen(pattern, Drop(s, i - 1)) > 0
        /\ \A j \in 1..(i - 1) : MatchLen(pattern, Drop(s, j - 1)) = 0

\* the scan of re.findall from a position of s on: the leftmost match, then
\* the scan from its end on; at most budget matches, as places and lengths
RECURSIVE FindAllFrom(_, _, _, _)
FindAllAt(pattern, s, i, n, budget) ==
    <<[at |-> i, len |-> n]>> \o FindAllFrom(pattern, s, i + n, budget - 1)

FindAllNext(pattern, s, i, budget) ==
    IF i > Len(s) THEN <<>>
    ELSE FindAllAt(pattern, s, i, MatchLen(pattern, Drop(s, i - 1)), budget)

FindAllFrom(pattern, s, from, budget) ==
    IF budget = 0 THEN <<>>
    ELSE FindAllNext(pattern, s, from - 1 + FirstMatch(pattern, Drop(s, from - 1)),
                     budget)

\* the scan, continued block of matches by block of matches
RECURSIVE FindAllBlocks(_, _, _)
FindAllAfter(pattern, s, block) ==
    IF Len(block) < BlockSize THEN block
    ELSE block \o FindAllBlocks(pattern, s,
                                block[Len(block)].at + block[Len(block)].len)

FindAllBlocks(pattern, s, from) ==
    FindAllAfter(pattern, s, FindAllFrom(pattern, s, from, BlockSize))

MatchedTexts(s, matches) ==
    [k \in 1..Len(matches) |->
        SubSeq(s, matches[k].at, matches[k].at + matches[k].len - 1)]

\* re.findall(pattern, s): leftmost, non-overlapping
FindAll(pattern, s) == MatchedTexts(s, FindAllBlocks(pattern, s, 1))

\* the pattern channel: every match, stripped
PatternKeywords(text) ==
    UNION {{Strip(m) : m \in Range(FindAll(important_patterns[p], text))} :
              p \in 1..Len(important_patterns)}

\* the words without the stopword filter
AllWords(text) == FindAll("word", text)

\* the words counted in word_freq, in order of occurrence
FrequencyWords(text) ==
    SelectSeq(FindAll("word", text), LAMBDA w : w \notin stopwords /\ Len(w) > 1)

\* the words with freq > 2, without the cut to the 20 most frequent
AllFrequent(words) ==
    {w \in Range(words) :
        Cardinality({k \in 1..Len(words) : words[k] = w}) > MinFrequency}

\* word_freq: the number of occurrences of every word
WordFreq(words) ==
    [w \in Range(words) |-> Cardinality({k \in 1..Len(words) : words[k] = w})]

\* the position a word takes in word_freq: that of its first occurrence
WordFirst(words) ==
    [w \in Range(words) |-> MinOf({k \in 1..Len(words) : words[k] = w})]

\* sorted(word_freq.items(), key=lambda x: x[1], reverse=True)[:20], a stable
\* sort, as the set of its words
TopOf(word_freq, first) ==
    {w \in DOMAIN word_freq :
        Cardinality({v \in DOMAIN word_freq :
                        \/ word_freq[v] > word_freq[w]
                        \/ word_freq[v] = word_freq[w] /\ first[v] < first[w]})
            < TopWords}

FrequentOf(top_words, word_freq) ==
    {w \in top_words : word_freq[w] > MinFrequency}

\* the 20 most frequent words (ties in order of first occurrence), of which
\* those with freq > 2 are kept
TopFrequent(words) ==
    FrequentOf(TopOf(WordFreq(words), WordFirst(words)), WordFreq(words))

\* the frequency channel
FrequencyKeywords(text) == TopFrequent(FrequencyWords(text))

RAG_extract_keywords(text) ==
    SortedStrs(PatternKeywords(text) \cup FrequencyKeywords(text))

(***************************************************************************)
(* RAGOptimizer._generate_qa_pairs                                         *)
(***************************************************************************)
AnswerLen == 200

DetailLen == 300

QaChunkLimit == 5

\* the local list qa_patterns (lines 273-282); the function never reads it
qa_patterns(title, content, chunks) ==
    << [question_pattern |-> <<20160, 40636, 26159>> \o title \o <<65311>>,
        answer |-> IF chunks # <<>> THEN chunks[1].content
                   ELSE Take(content, AnswerLen) \o <<46, 46, 46>>],
       [question_pattern |-> <<38364, 26044>> \o title
                                 \o <<30340, 35443, 32048, 36039, 35338>>,
        answer |-> Ellipsis(content, DetailLen)] >>

\* the pairs of the chunks that have a heading
HeadingPairs(withHeading) ==
    [k \in 1..Len(withHeading) |->
        [question |-> withHeading[k].heading \o <<26159, 20160, 40636, 65311>>,
         answer |-> withHeading[k].content,
         context |-> withHeading[k].context]]

\* the loop without the limit to the first 5 chunks
QaPairsOfAllChunks(title, content, chunks) ==
    HeadingPairs(SelectSeq(chunks, LAMBDA c : c.heading # <<>>))

RAG_generate_qa_pairs(title, content, chunks) ==
    HeadingPairs(SelectSeq(Take(chunks, QaChunkLimit), LAMBDA c : c.heading # <<>>))

(***************************************************************************)
(* RAGOptimizer._create_summary                                            *)
(***************************************************************************)
SummaryMinParagraph == 50

SummaryLen == 200

\* the summary that is the whole content
WholeContent(content) == content

\* the first paragraph longer than 50 that is no heading, else the content
FirstEligible(eligible, content) ==
    IF eligible # <<>> THEN Ellipsis(eligible[1], SummaryLen)
    ELSE Ellipsis(content, SummaryLen)

RAG_create_summary(content) ==
    FirstEligible(SelectSeq(Paragraphs(content),
                            LAMBDA p : Len(p) > SummaryMinParagraph
                                       /\ ~StartsWithAt(p, 1, <<35, 35>>)),
                  content)

(***************************************************************************)
(* RAGOptimizer._optimize_single_article                                   *)
(*                                                                         *)
(* An input record is a mapping with the fields title, content, excerpt    *)
(* and categories (kind = "dict"), whose content is a str or (content_str  *)
(* = FALSE) a non-empty value of another type, or is no mapping at all     *)
(* (kind = "other").                                                       *)
(***************************************************************************)
\* the id made from nothing but the prefix and the number 1
FirstId(index) == <<108, 105, 110, 107, 101, 100, 117, 95, 48, 48, 48, 49>>

\* f"linkedu_{index:04d}"
DocId(index) == <<108, 105, 110, 107, 101, 100, 117, 95>> \o Pad4(index)

\* article.get(...) raises AttributeError on a record that is no mapping;
\* text.strip() raises AttributeError on a non-empty value that is no str
Raises(article) == article.kind # "dict" \/ ~article.content_str

\* the check without its second half: if not title: return None
ReturnsNoneTitleOnly(article) == RAG_clean_text(article.title) = <<>>

\* if not title or not content: return None
ReturnsNone(article) ==
    LET title == RAG_clean_text(article.title)
        content == RAG_clean_text(article.content)
    IN  title = <<>> \/ content = <<>>

\* the dict returned for a record that is neither skipped nor raises; the
\* fields searchable_content, structure and metadata, which no other field
\* is computed from, are left out
BuildDocument(article, index, title, content, excerpt, chunks) ==
    [id |-> DocId(index),
     title |-> title,
     summary |-> IF excerpt # <<>> THEN excerpt ELSE RAG_create_summary(content),
     full_content |-> content,
     source_url |-> IF "source_url" \in DOMAIN article THEN article.source_url ELSE <<>>,
     topics |-> RAG_extract_comprehensive_topics(article),
     keywords |-> RAG_extract_keywords(
                      title \o <<32>> \o excerpt \o <<32>> \o content),
     semantic_chunks |-> chunks,
     qa_pairs |-> RAG_generate_qa_pairs(title, content, chunks)]

CleanedDocument(article, index, title, content, excerpt) ==
    BuildDocument(article, index, title, content, excerpt,
                  RAG_create_semantic_chunks(content, title))

\* the document whose chunks are made from the body as it came
DocumentOfRawBody(article, index) ==
    BuildDocument(article, index, RAG_clean_text(article.title),
                  RAG_clean_text(article.content), RAG_clean_text(article.excerpt),
                  RAG_create_semantic_chunks(article.content,
                                             RAG_clean_text(article.title)))

RAG_optimize_single_article(article, index) ==
    CleanedDocument(article, index, RAG_clean_text(article.title),
                    RAG_clean_text(article.content), RAG_clean_text(article.excerpt))

(***************************************************************************)
(* Input records of the article pipeline.                                  *)
(***************************************************************************)
\* "IELTS\u8003\u8a66\u653b\u7565"
ScenarioA_title ==
    <<73, 69, 76, 84, 83, 32771, 35430, 25915, 30053>>

\* the body of Scenario A: two sections marked "## ", one paragraph each
ScenarioA_body ==
    <<35, 35, 32, 31777, 20171, 10, 10, 73, 69, 76, 84, 83, 26159,
    22283, 38555, 33521, 35486, 27700, 24179, 28204, 35430, 65292,
    29992, 26044, 35413, 26680, 23416, 29983, 30340, 33521, 35486,
    33021, 21147, 12290, 36889, 26159, 19968, 20491, 37325, 35201,
    30340, 32771, 35430, 12290, 10, 10, 35, 35, 32, 36027, 29992, 10,
    10, 36027, 29992, 22823, 32004, 28858, 72, 75, 36, 50, 48, 48, 48,
    65292, 23416, 29983, 38920, 25552, 26089, 22577, 21517, 12290>>

Article(title, content, excerpt, categories) ==
    [kind |-> "dict", title |-> title, content |-> content, content_str |-> TRUE,
     excerpt |-> excerpt, categories |-> categories]

\* the k-th two-letter acronym over A..E: AA, AB, ..., EE
Acronym(k) == <<65 + (k \div 5), 65 + (k % 5)>>

\* the acronyms number 1..n, separated by spaces: "AB AC AD ..."
AcronymText(n) ==
    Concat([k \in 1..n |-> IF k = 1 THEN Acronym(k) ELSE <<32>> \o Acronym(k)])

\* Scenario A
ScenarioA == Article(ScenarioA_title, ScenarioA_body, <<>>, <<>>)

\* Scenario D: an empty title
EmptyTitle == Article(<<>>, ScenarioA_body, <<>>, <<>>)

\* a title "$#" that normalizes to the empty string
SymbolTitle == Article(<<36, 35>>, <<30041, 23416, 33521, 22283>>, <<>>, <<>>)

\* a body of whitespace only
BlankBody == Article(<<21319, 23416>>, <<32, 10, 32>>, <<>>, <<>>)

\* Scenario C: a short body without heading marker, no excerpt
ShortBody ==
    Article(<<21319, 23416>>,
            <<30041, 23416, 33521, 22283, 30340, 30701, 25991>>, <<>>, <<>>)

\* title "AA" and a body of 20 more acronyms
ManyAcronyms == Article(Acronym(0), AcronymText(20), <<>>, <<>>)

\* a record with an excerpt and category labels
WithExcerpt ==
    Article(<<84, 79, 69, 70, 76, 32, 50, 48, 50, 52, 24180>>,
            ScenarioA_body, <<25688, 35201>>,
            <<21319, 23416, 65294, 28023, 22806, 44, 32, 73, 69, 76, 84, 83>>)

\* a record whose content is a number
NumberBody ==
    [kind |-> "dict", title |-> ScenarioA_title, content |-> <<>>,
     content_str |-> FALSE, excerpt |-> <<>>, categories |-> <<>>]

\* an entry of the batch that is no mapping
NotAMapping ==
    [kind |-> "other", title |-> <<>>, content |-> <<>>, content_str |-> TRUE,
     excerpt |-> <<>>, categories |-> <<>>]

\* a body of 250 characters in two lines, no excerpt
LongBody ==
    Article(<<21319, 23416>>,
            [k \in 1..250 |-> IF k = 120 THEN 10 ELSE 23416], <<>>, <<>>)

\* Scenario C at its limit: a body of 29 characters
AlmostParagraph ==
    Article(<<21319, 23416>>, [k \in 1..29 |-> 23416], <<>>, <<>>)

\* two paragraphs that normalize to a body of 50 characters
FiftyBody ==
    Article(<<21319, 23416>>, [k \in 1..51 |-> IF k \in {26, 27} THEN 10 ELSE 23416], <<>>, <<>>)

\* two paragraphs that normalize to a body of 49 characters
FortyNineBody ==
    Article(<<21319, 23416>>, [k \in 1..50 |-> IF k \in {25, 26} THEN 10 ELSE 23416], <<>>, <<>>)

ArticleInputs ==
    {ScenarioA, EmptyTitle, SymbolTitle, BlankBody, ShortBody, ManyAcronyms,
     WithExcerpt, NumberBody, NotAMapping, LongBody, AlmostParagraph,
     FiftyBody, FortyNineBody}

\* all sequences over S of length at most n
RECURSIVE SeqsUpTo(_, _)
SeqsUpTo(S, n) ==
    IF n = 0 THEN {<<>>}
    ELSE LET shorter == SeqsUpTo(S, n - 1)
         IN  shorter \cup {Append(q, x) : q \in {r \in shorter : Len(r) = n - 1}, x \in S}

(***************************************************************************)
(* RAGOptimizer.optimize_articles_for_rag as a state machine.              *)
(***************************************************************************)
(***************************************************************************)
(* LinkeduSubjectScraper (linkedu_subjects_scraper.py): clean_text and     *)
(* optimize_for_rag.  A subject is a record; a key the dict does not have  *)
(* is a field the record does not have.                                    *)
(***************************************************************************)
\* dict.get(key, default)
Get(d, key, default) == IF key \in DOMAIN d THEN d[key] ELSE default

\* re.sub(r'\n+', ' ', s)
NewlinesKept(s, kept) ==
    [j \in 1..Len(kept) |-> IF s[kept[j]] = 10 THEN 32 ELSE s[kept[j]]]

CollapseNewlines(s) ==
    NewlinesKept(s, SelectSeq([k \in 1..Len(s) |-> k],
                              LAMBDA k : s[k] # 10 \/ k = 1 \/ s[k - 1] # 10))

Subject_clean_text(text) ==
    IF text = <<>> THEN <<>>
    ELSE CollapseNewlines(Strip(CollapseWhitespace(text)))

\* str.replace(a, b) for single characters
Replace(s, a, b) == [k \in 1..Len(s) |-> IF s[k] = a THEN b ELSE s[k]]

\* str.replace(c, '') for every character c of C
Without(s, C) == SelectSeq(s, LAMBDA c : c \notin C)

\* subject['english_name'].lower().replace(' ', '_')
SubjectSlug(subject) == Replace(Lower(subject.english_name), 32, 95)

\* the keys optimize_for_rag reads with subject[...]
SubjectKeys ==
    {"english_name", "chinese_name", "last_updated", "author", "skills_info",
     "requirements", "content", "recommended_schools", "rankings", "url"}

\* every entry of list has all the keys
AllHave(list, keys) == \A k \in 1..Len(list) : keys \subseteq DOMAIN list[k]

\* a subscript of optimize_for_rag raises KeyError
SubjectRaises(subject) ==
    \/ ~(SubjectKeys \subseteq DOMAIN subject)
    \/ ~({"name", "title"} \subseteq DOMAIN subject.author)
    \/ ~AllHave(subject.requirements, {"title", "content"})
    \/ ~AllHave(subject.recommended_schools, {"name", "description"})
    \/ ~AllHave(subject.rankings, {"rank", "school"})

\* "Subject: {english_name} ({chinese_name}). Last updated: ... Author: ..."
BasicText(subject) ==
    <<83, 117, 98, 106, 101, 99, 116, 58, 32>> \o subject.english_name \o <<32, 40>> \o subject.chinese_name
        \o <<41, 46, 32, 76, 97, 115, 116, 32, 117, 112, 100, 97, 116, 101, 100, 58, 32>> \o subject.last_updated
        \o <<46, 32, 65, 117, 116, 104, 111, 114, 58, 32>> \o subject.author.name \o <<44, 32>> \o subject.author.title

basic_info(subject) ==
    [chunk_id |-> SubjectSlug(subject) \o <<95, 98, 97, 115, 105, 99>>,
     title |-> subject.english_name \o <<32, 40>> \o subject.chinese_name \o <<41>>,
     type |-> "basic_info",
     content |-> Subject_clean_text(BasicText(subject))]

skills(subject) ==
    [chunk_id |-> SubjectSlug(subject) \o <<95, 115, 107, 105, 108, 108, 115>>,
     title |-> subject.english_name \o <<32, 45, 32, 83, 107, 105, 108, 108, 115, 32, 97, 110, 100, 32, 82, 101, 113, 117, 105, 114, 101, 109, 101, 110, 116, 115>>,
     type |-> "skills_info",
     content |-> Subject_clean_text(subject.skills_info)]

\* req['title'].lower().replace(' ', '_') without the characters \uff08, \uff09
ReqSlug(req) == Without(Replace(Lower(req.title), 32, 95), {65288, 65289})

req_chunk(subject, req) ==
    [chunk_id |-> SubjectSlug(subject) \o <<95>> \o ReqSlug(req),
     title |-> req.title,
     type |-> "requirement",
     content |-> Subject_clean_text(req.content)]

RequirementChunks(subject) ==
    [k \in 1..Len(subject.requirements) |-> req_chunk(subject, subject.requirements[k])]

\* the characters a sentence ends with: . ! ?
SentenceEnd == {46, 33, 63}

\* re.split(r'(?<=[.!?])\s+', s)
RECURSIVE SplitSentences(_)
SplitSentencesAt(s, i) ==
    IF i > Len(s) THEN <<s>>
    ELSE <<SubSeq(s, 1, i - 1)>> \o
         SplitSentences(Drop(s, i - 1 + SpanLen(Drop(s, i - 1), WhitespaceChars)))

SplitSentences(s) ==
    SplitSentencesAt(s,
        MinOf({i \in 2..Len(s) : IsSpace(s[i]) /\ s[i - 1] \in SentenceEnd}
                  \cup {Len(s) + 1}))

\* the size a chunk is flushed at
MaxChunkLen == 1000

\* the loop over the sentences: packed holds the contents of the chunks
\* appended so far (chunk_count is its length) and the result is packed after
\* the flush of the last buffer
\* the loop without the flush of the last buffer
RECURSIVE PackWithoutLastFlush(_, _, _)
PackWithoutLastFlush(sentences, current_chunk, packed) ==
    IF sentences = <<>>
    THEN packed
    ELSE IF Len(current_chunk) + Len(Head(sentences)) > MaxChunkLen /\ current_chunk # <<>>
         THEN PackWithoutLastFlush(Tail(sentences), Head(sentences),
                                   Append(packed, Strip(current_chunk)))
         ELSE PackWithoutLastFlush(Tail(sentences),
                                   IF current_chunk # <<>>
                                   THEN current_chunk \o <<32>> \o Head(sentences)
                                   ELSE Head(sentences),
                                   packed)

RECURSIVE PackSentences(_, _, _)
PackSentences(sentences, current_chunk, packed) ==
    IF sentences = <<>>
    THEN IF current_chunk # <<>> THEN Append(packed, Strip(current_chunk)) ELSE packed
    ELSE IF Len(current_chunk) + Len(Head(sentences)) > MaxChunkLen /\ current_chunk # <<>>
         THEN PackSentences(Tail(sentences), Head(sentences),
                            Append(packed, Strip(current_chunk)))
         ELSE PackSentences(Tail(sentences),
                            IF current_chunk # <<>>
                            THEN current_chunk \o <<32>> \o Head(sentences)
                            ELSE Head(sentences),
                            packed)

content_chunk(subject, chunk_count, text) ==
    [chunk_id |-> SubjectSlug(subject) \o <<95, 99, 111, 110, 116, 101, 110, 116, 95>> \o Decimal(chunk_count),
     title |-> subject.english_name \o <<32, 45, 32, 67, 111, 110, 116, 101, 110, 116, 32, 80, 97, 114, 116, 32>> \o Decimal(chunk_count),
     type |-> "content",
     content |-> text]

PackedChunks(subject, packed) ==
    [n \in 1..Len(packed) |-> content_chunk(subject, n, packed[n])]

\* the sentences of the cleaned content
Sentences(subject) == SplitSentences(Subject_clean_text(subject.content))

ContentChunks(subject) ==
    IF subject.content # <<>>
    THEN PackedChunks(subject, PackSentences(Sentences(subject), <<>>, <<>>))
    ELSE <<>>

\* "Recommended schools: " and "{name}: {description}. " for every school
schools_text(subject) ==
    <<82, 101, 99, 111, 109, 109, 101, 110, 100, 101, 100, 32, 115, 99, 104, 111, 111, 108, 115, 58, 32>> \o
    Concat([k \in 1..Len(subject.recommended_schools) |->
               subject.recommended_schools[k].name \o <<58, 32>>
                   \o Subject_clean_text(subject.recommended_schools[k].description)
                   \o <<46, 32>>])

schools_chunk(subject) ==
    [chunk_id |-> SubjectSlug(subject) \o <<95, 114, 101, 99, 111, 109, 109, 101, 110, 100, 101, 100, 95, 115, 99, 104, 111, 111, 108, 115>>,
     title |-> subject.english_name \o <<32, 45, 32, 82, 101, 99, 111, 109, 109, 101, 110, 100, 101, 100, 32, 83, 99, 104, 111, 111, 108, 115>>,
     type |-> "recommended_schools",
     content |-> Strip(schools_text(subject))]

rankings_list(subject) ==
    [k \in 1..Len(subject.rankings) |->
        [rank |-> subject.rankings[k].rank,
         school |-> subject.rankings[k].school,
         url |-> Get(subject.rankings[k], "url", <<>>)]]

\* "Subject rankings: " and "#{rank}: {school}. " for every rank
rankings_text(subject) ==
    <<83, 117, 98, 106, 101, 99, 116, 32, 114, 97, 110, 107, 105, 110, 103, 115, 58, 32>> \o
    Concat([k \in 1..Len(subject.rankings) |->
               <<35>> \o subject.rankings[k].rank \o <<58, 32>>
                   \o subject.rankings[k].school \o <<46, 32>>])

rankings_chunk(subject) ==
    [chunk_id |-> SubjectSlug(subject) \o <<95, 114, 97, 110, 107, 105, 110, 103, 115>>,
     title |-> subject.english_name \o <<32, 45, 32, 85, 110, 105, 118, 101, 114, 115, 105, 116, 121, 32, 82, 97, 110, 107, 105, 110, 103, 115>>,
     type |-> "rankings",
     content |-> Strip(rankings_text(subject)),
     rankings |-> rankings_list(subject)]

\* chunk.update({'metadata': {...}}) for every chunk
WithMetadata(chunks, subject) ==
    [k \in 1..Len(chunks) |->
        chunks[k] @@ [metadata |-> [subject |-> subject.english_name,
                                    chinese_name |-> subject.chinese_name,
                                    url |-> subject.url,
                                    last_updated |-> subject.last_updated]]]

\* the chunks of one subject, in the order they are appended
SubjectChunks(subject) ==
    WithMetadata(
        <<basic_info(subject)>>
            \o (IF subject.skills_info # <<>> THEN <<skills(subject)>> ELSE <<>>)
            \o RequirementChunks(subject)
            \o ContentChunks(subject)
            \o (IF subject.recommended_schools # <<>> THEN <<schools_chunk(subject)>> ELSE <<>>)
            \o (IF subject.rankings # <<>> THEN <<rankings_chunk(subject)>> ELSE <<>>),
        subject)

(***************************************************************************)
(* Sample subjects.                                                        *)
(***************************************************************************)
\* n times the character c
Rep(c, n) == [k \in 1..n |-> c]

\* a sentence of n characters: n - 1 times c and a full stop
SentenceOf(c, n) == Rep(c, n - 1) \o <<46>>

Subject(english_name, skills_info, requirements, content, recommended_schools, rankings) ==
    [url |-> <<104, 116, 116, 112, 115, 58, 47, 47, 108, 105, 110, 107, 101, 100, 117, 46, 104, 107, 47, 115, 117, 98, 106, 101, 99, 116, 115, 47, 108, 97, 119>>,
     chinese_name |-> <<27861, 24459>>,
     english_name |-> english_name,
     last_updated |-> <<50, 48, 50, 52, 45, 49, 48, 45, 49, 48>>,
     author |-> [name |-> <<67, 104, 97, 110>>, title |-> <<67, 111, 110, 115, 117, 108, 116, 97, 110, 116>>],
     content |-> content,
     skills_info |-> skills_info,
     requirements |-> requirements,
     recommended_schools |-> recommended_schools,
     rankings |-> rankings]

\* d without the key
WithoutKey(d, key) == [k \in DOMAIN d \ {key} |-> d[k]]

\* a complete subject: skills, one requirement, two short sentences, one
\* recommended school, one ranking row
Law ==
    Subject(<<76, 97, 119>>, <<67, 114, 105, 116, 105, 99, 97, 108, 32, 32, 116, 104, 105, 110, 107, 105, 110, 103>>,
            << [title |-> <<65, 32, 76, 101, 118, 101, 108>>, content |-> <<65, 65, 65>>] >>,
            <<76, 97, 119, 32, 105, 115, 32, 111, 108, 100, 46, 32, 73, 116, 32, 112, 97, 121, 115, 32, 119, 101, 108, 108, 46>>,
            << [name |-> <<79, 120, 102, 111, 114, 100>>, url |-> <<47, 111, 120, 102, 111, 114, 100>>, description |-> <<79, 108, 100, 10, 97, 110, 100, 32, 103, 111, 111, 100>>] >>,
            << [rank |-> <<49>>, school |-> <<79, 120, 102, 111, 114, 100>>, url |-> <<47, 111, 120, 102, 111, 114, 100>>] >>)

\* no skills, no requirements, no content, no schools, no rankings
Bare == Subject(<<65, 114, 116>>, <<>>, <<>>, <<>>, <<>>, <<>>)

\* two sentences of 500 characters each
ExactFit ==
    Subject(<<68, 97, 116, 97, 32, 83, 99, 105, 101, 110, 99, 101>>, <<>>, <<>>,
            SentenceOf(97, 500) \o <<32>> \o SentenceOf(98, 500), <<>>, <<>>)

\* a short sentence and one of 1002 characters
Oversized ==
    Subject(<<77, 101, 100, 105, 99, 105, 110, 101>>, <<>>, <<>>,
            <<72, 105, 46>> \o <<32>> \o SentenceOf(97, 1002), <<>>, <<>>)

\* sentences of 600, 600 and 300 characters
ThreeSentences ==
    Subject(<<69, 99, 111, 110, 111, 109, 105, 99, 115>>, <<>>, <<>>,
            SentenceOf(97, 600) \o <<32>> \o SentenceOf(98, 600) \o <<32>>
                \o SentenceOf(99, 300), <<>>, <<>>)

\* two requirements with one title, one of them without content, and a
\* skills text of whitespace
TwinRequirements ==
    Subject(<<77, 117, 115, 105, 99>>, <<32, 32>>,
            << [title |-> <<73, 66, 65288, 68, 105, 112, 108, 111, 109, 97, 65289>>, content |-> <<51, 56, 32, 112, 111, 105, 110, 116, 115>>],
               [title |-> <<73, 66, 65288, 68, 105, 112, 108, 111, 109, 97, 65289>>, content |-> <<>>] >>,
            <<77, 117, 115, 105, 99, 33>>, <<>>,
            << [rank |-> <<50>>, school |-> <<82, 67, 77>>] >>)

\* a subject without 'english_name'
NoEnglishName == WithoutKey(Law, "english_name")

\* a subject without 'author'
NoAuthor == WithoutKey(Law, "author")

\* a subject without 'skills_info' and 'requirements'
NoSkills == WithoutKey(WithoutKey(Bare, "skills_info"), "requirements")

SubjectInputs ==
    {Law, Bare, ExactFit, Oversized, ThreeSentences, TwinRequirements,
     NoEnglishName, NoAuthor, NoSkills}

(***************************************************************************)
(* SchoolRAGOptimizer (optimize_existing_schools.py).  A school is a       *)
(* record of the keys its dict has; an entry of the list that is no dict   *)
(* is the record NotADict.  The field headings of rag_metadata, which      *)
(* nothing else is computed from, is left out of the school record; its    *)
(* keywords are the operator extract_keywords below.                       *)
(***************************************************************************)
education_keywords ==
    << [code |-> <<85, 75>>,
        keywords |-> <<<<117, 110, 105, 116, 101, 100, 32, 107, 105, 110, 103, 100, 111, 109>>, <<101, 110, 103, 108, 97, 110, 100>>, <<108, 111, 110, 100, 111, 110>>,
                       <<98, 114, 105, 116, 105, 115, 104>>, <<115, 99, 111, 116, 108, 97, 110, 100>>, <<119, 97, 108, 101, 115>>>>],
       [code |-> <<85, 83>>,
        keywords |-> <<<<117, 110, 105, 116, 101, 100, 32, 115, 116, 97, 116, 101, 115>>, <<97, 109, 101, 114, 105, 99, 97>>, <<99, 97, 108, 105, 102, 111, 114, 110, 105, 97>>,
                       <<110, 101, 119, 32, 121, 111, 114, 107>>, <<98, 111, 115, 116, 111, 110>>>>],
       [code |-> <<65, 85>>,
        keywords |-> <<<<97, 117, 115, 116, 114, 97, 108, 105, 97>>, <<115, 121, 100, 110, 101, 121>>, <<109, 101, 108, 98, 111, 117, 114, 110, 101>>, <<98, 114, 105, 115, 98, 97, 110, 101>>>>],
       [code |-> <<67, 65>>,
        keywords |-> <<<<99, 97, 110, 97, 100, 97>>, <<116, 111, 114, 111, 110, 116, 111>>, <<118, 97, 110, 99, 111, 117, 118, 101, 114>>, <<109, 111, 110, 116, 114, 101, 97, 108>>>>],
       [code |-> <<67, 78>>,
        keywords |-> <<<<99, 104, 105, 110, 97>>, <<104, 111, 110, 103, 32, 107, 111, 110, 103>>, <<109, 97, 99, 97, 117>>, <<98, 101, 105, 106, 105, 110, 103>>,
                       <<115, 104, 97, 110, 103, 104, 97, 105>>>>] >>

School_clean_text(text) ==
    IF text = <<>> THEN <<>>
    ELSE Strip(CollapseWhitespace(CollapseNewlines(text)))

\* the table of _extract_country_from_address, in the order of the dict
countries ==
    << [code |-> <<85, 75>>,
        indicators |-> <<<<85, 75>>, <<85, 110, 105, 116, 101, 100, 32, 75, 105, 110, 103, 100, 111, 109>>, <<69, 110, 103, 108, 97, 110, 100>>, <<83, 99, 111, 116, 108, 97, 110, 100>>,
                         <<87, 97, 108, 101, 115>>, <<78, 111, 114, 116, 104, 101, 114, 110, 32, 73, 114, 101, 108, 97, 110, 100>>>>],
       [code |-> <<85, 83>>,
        indicators |-> <<<<85, 83>>, <<85, 83, 65>>, <<85, 110, 105, 116, 101, 100, 32, 83, 116, 97, 116, 101, 115>>, <<65, 109, 101, 114, 105, 99, 97>>>>],
       [code |-> <<67, 65>>, indicators |-> <<<<67, 97, 110, 97, 100, 97>>, <<67, 65>>>>],
       [code |-> <<65, 85>>, indicators |-> <<<<65, 117, 115, 116, 114, 97, 108, 105, 97>>, <<65, 85>>>>],
       [code |-> <<67, 78>>,
        indicators |-> <<<<67, 104, 105, 110, 97>>, <<67, 78>>, <<72, 111, 110, 103, 32, 75, 111, 110, 103>>, <<77, 97, 99, 97, 117>>>>] >>

\* str.upper() on the letters a..z
UpperChar(c) == IF c \in 97..122 THEN c - 32 ELSE c

Upper(s) == [k \in 1..Len(s) |-> UpperChar(s[k])]

\* one of the indicators of the entry occurs in the upper-cased address
Indicated(entry, address_upper) ==
    \E k \in 1..Len(entry.indicators) :
        Contains(address_upper, Upper(entry.indicators[k]))

\* the greatest element of a non-empty set of numbers
MaxOf(S) == CHOOSE x \in S : \A y \in S : x >= y

\* the code of the last entry of the table that is indicated
LastIndicated(address_upper) ==
    countries[MaxOf({k \in 1..Len(countries) :
                        Indicated(countries[k], address_upper)})].code

\* the code of the first entry of the table that is indicated
FirstIndicated(address_upper) ==
    countries[MinOf({k \in 1..Len(countries) :
                        Indicated(countries[k], address_upper)})].code

extract_country_from_address(address) ==
    IF address = <<>> THEN <<>>
    ELSE IF \E k \in 1..Len(countries) : Indicated(countries[k], Upper(address))
         THEN FirstIndicated(Upper(address))
         ELSE <<>>

\* self.education_keywords[country], <<>> when country is no key
KeywordsOf(country) ==
    Concat([k \in 1..Len(education_keywords) |->
               IF education_keywords[k].code = country
               THEN education_keywords[k].keywords ELSE <<>>])

\* the number of subjects and of country keywords used
FirstFew == 3

\* the length the variations are cut to
MaxVariations == 10

\* f"{name} {x}" for every x of the list
NameWith(name, list) == [k \in 1..Len(list) |-> name \o <<32>> \o list[k]]

\* the variations, with name, country and popular_subjects read with get
Variations(name, country, popular_subjects) ==
    (IF name # <<>>
     THEN <<name>> \o (IF country # <<>> THEN <<name \o <<32>> \o country>> ELSE <<>>)
     ELSE <<>>)
    \o (IF name # <<>> THEN NameWith(name, Take(popular_subjects, FirstFew)) ELSE <<>>)
    \o (IF country # <<>> /\ name # <<>>
        THEN NameWith(name, Take(KeywordsOf(country), FirstFew)) ELSE <<>>)

generate_search_variations(school) ==
    Take(Variations(Get(school, "name", <<>>), Get(school, "country", <<>>),
                    Get(school, "popular_subjects", <<>>)),
         MaxVariations)

\* isinstance(school, dict)
IsDict(x) == "not_a_dict" \notin DOMAIN x

\* isinstance(course, str): the string s is the record [str |-> s]
IsStr(course) == "str" \in DOMAIN course

\* a dict with a 'title'
TitledCourse(course) == ~IsStr(course) /\ "title" \in DOMAIN course

\* course['content'] = self._clean_text(course['content']), when it has one
CleanedCourse(course) ==
    IF "content" \in DOMAIN course
    THEN [course EXCEPT !["content"] = School_clean_text(course.content)]
    ELSE course

\* the list courses after the loop over school['courses']
CoursesOf(list) ==
    Concat([k \in 1..Len(list) |->
               IF TitledCourse(list[k]) THEN <<CleanedCourse(list[k])>>
               ELSE IF IsStr(list[k])
                    THEN <<[title |-> list[k].str, content |-> <<>>]>>
                    ELSE <<>>])

\* the list course_offerings after the loop
OfferingsOf(list) ==
    Concat([k \in 1..Len(list) |->
               IF TitledCourse(list[k]) THEN <<list[k].title>>
               ELSE IF IsStr(list[k]) THEN <<list[k].str>> ELSE <<>>])

\* school['courses'] after the loop, which assigns to the dicts of the input
CoursesAfter(list) ==
    [k \in 1..Len(list) |->
        IF TitledCourse(list[k]) THEN CleanedCourse(list[k]) ELSE list[k]]

\* the school after the iteration
SchoolAfter(school) ==
    IF "courses" \in DOMAIN school
    THEN [school EXCEPT !["courses"] = CoursesAfter(school.courses)]
    ELSE school

\* the length the description is cut to
DescriptionLen == 300

SchoolDescription(school) ==
    IF Get(school, "description", <<>>) # <<>> \/ Get(school, "excerpt", <<>>) # <<>>
    THEN Take(School_clean_text(Get(school, "description", Get(school, "excerpt", <<>>))),
              DescriptionLen)
    ELSE <<>>

SchoolCountry(school) ==
    IF Get(school, "country", <<>>) # <<>> THEN school.country
    ELSE extract_country_from_address(Get(school, "address", <<>>))

\* x or y for lists
OrElse(x, y) == IF x # <<>> THEN x ELSE y

\* the dict optimized_school of the school at index i (0-based)
optimized_school(school, i) ==
    [id |-> Get(school, "id", <<108, 105, 110, 107, 101, 100, 117, 95, 115, 99, 104, 111, 111, 108, 95>> \o Pad4(i + 1)),
     name |-> Get(school, "name", <<>>),
     url |-> Get(school, "url", <<>>),
     country |-> SchoolCountry(school),
     popular_subjects |-> Get(school, "popular_subjects", <<>>),
     description |-> SchoolDescription(school),
     courses |-> OrElse(CoursesOf(Get(school, "courses", <<>>)),
                        CoursesAfter(Get(school, "courses", <<>>))),
     course_offerings |-> OrElse(OfferingsOf(Get(school, "courses", <<>>)),
                                 Get(school, "course_offerings", <<>>)),
     content |-> School_clean_text(Get(school, "content", <<>>)),
     website |-> Get(school, "website", <<>>),
     rag_metadata |->
         [search_variations |->
              generate_search_variations(
                  [name |-> Get(school, "name", <<>>),
                   country |-> SchoolCountry(school),
                   popular_subjects |-> Get(school, "popular_subjects", <<>>)])]]

\* \w on the scripts of the model's alphabet, as a set
WordChars ==
    (65..90) \cup (97..122) \cup (48..57) \cup {95}
        \cup (13312..19903) \cup (19968..40959)

\* the least length of a keyword: \w{4,}
MinWordLen == 4

\* re.findall(r'\b\w{4,}\b', s): the maximal runs of word characters that
\* have at least 4 characters
RECURSIVE LongWords(_)
LongWordsAt(s, p) ==
    IF p > Len(s) THEN <<>>
    ELSE (IF SpanLen(Drop(s, p - 1), WordChars) >= MinWordLen
          THEN <<SubSeq(s, p, p - 1 + SpanLen(Drop(s, p - 1), WordChars))>>
          ELSE <<>>)
         \o LongWords(Drop(s, p - 1 + SpanLen(Drop(s, p - 1), WordChars)))

LongWords(s) == LongWordsAt(s, IndexOfAny(s, WordChars))

\* the stopwords of the school keywords
school_stopwords ==
    {<<115, 99, 104, 111, 111, 108>>, <<117, 110, 105, 118, 101, 114, 115, 105, 116, 121>>, <<99, 111, 108, 108, 101, 103, 101>>, <<99, 97, 109, 112, 117, 115>>, <<115, 116, 117, 100, 101, 110, 116>>,
     <<115, 116, 117, 100, 101, 110, 116, 115>>, <<101, 100, 117, 99, 97, 116, 105, 111, 110>>}

\* keywords, as the set set(keywords) holds
KeywordSet(text) ==
    Range(SelectSeq(LongWords(Lower(School_clean_text(text))),
                    LAMBDA w : w \notin school_stopwords))

\* the number of keywords kept
MaxKeywords == 20

\* list(S): the elements of the set in the order of iteration, which
\* depends on the hashes of the strings and so on the process
Orderings(S) ==
    {q \in [1..Cardinality(S) -> S] :
        \A a, b \in 1..Cardinality(S) : a # b => q[a] # q[b]}

\* the lists _extract_keywords can return for the text
extract_keywords(text) ==
    IF text = <<>> THEN {<<>>}
    ELSE {Take(q, MaxKeywords) : q \in Orderings(KeywordSet(text))}

(***************************************************************************)
(* Sample schools.                                                         *)
(***************************************************************************)
\* Scenario B: two popular subjects and a country code
Oxford ==
    [name |-> <<79, 120, 102, 111, 114, 100>>, country |-> <<85, 75>>,
     popular_subjects |-> <<<<76, 97, 119>>, <<77, 101, 100, 105, 99, 105, 110, 101>>>>,
     address |-> <<87, 101, 108, 108, 105, 110, 103, 116, 111, 110, 32, 83, 113, 117, 97, 114, 101, 44, 32, 79, 120, 102, 111, 114, 100, 44, 32, 69, 110, 103, 108, 97, 110, 100, 44, 32, 85, 75>>,
     description |-> <<65, 110, 32, 111, 108, 100, 10, 10, 117, 110, 105, 118, 101, 114, 115, 105, 116, 121, 32>>,
     content |-> <<35, 32, 79, 120, 102, 111, 114, 100, 10, 10, 70, 111, 117, 110, 100, 101, 100, 32, 32, 108, 111, 110, 103, 32, 97, 103, 111, 46>>]

\* the same subject twice
RepeatedSubjects ==
    [name |-> <<76, 101, 101, 100, 115>>, country |-> <<85, 75>>,
     popular_subjects |-> <<<<76, 97, 119>>, <<76, 97, 119>>>>]

\* a subject that is the country code
SubjectIsCountry ==
    [name |-> <<75, 101, 110, 116>>, country |-> <<85, 75>>, popular_subjects |-> <<<<85, 75>>>>]

\* a subject that is a keyword of the country
SubjectIsKeyword ==
    [name |-> <<77, 73, 84>>, country |-> <<85, 83>>,
     popular_subjects |-> <<<<97, 109, 101, 114, 105, 99, 97>>, <<80, 104, 121, 115, 105, 99, 115>>>>]

\* no country, an address in Australia, five subjects
FromAddress ==
    [name |-> <<85, 78, 83, 87>>, address |-> <<83, 121, 100, 110, 101, 121, 44, 32, 65, 117, 115, 116, 114, 97, 108, 105, 97>>,
     popular_subjects |-> <<<<65, 114, 116>>, <<76, 97, 119>>, <<77, 117, 115, 105, 99>>, <<77, 97, 116, 104, 115>>, <<80, 104, 121, 115, 105, 99, 115>>>>,
     excerpt |-> <<66, 121, 32, 116, 104, 101, 32, 115, 101, 97>>]

\* a school without a name
Nameless == [country |-> <<67, 65>>, popular_subjects |-> <<<<76, 97, 119>>>>]

\* courses: a dict with content, a string, a dict without title
WithCourses ==
    [name |-> <<72, 75, 85>>, id |-> <<104, 107, 117>>, address |-> <<80, 111, 107, 32, 70, 117, 32, 76, 97, 109, 44, 32, 72, 111, 110, 103, 32, 75, 111, 110, 103>>,
     courses |-> << [title |-> <<66, 83, 99>>, content |-> <<84, 104, 114, 101, 101, 10, 121, 101, 97, 114, 115>>],
                    [str |-> <<77, 66, 65>>],
                    [content |-> <<117, 110, 116, 105, 116, 108, 101, 100>>] >>]

\* a country code that is no key of education_keywords
OtherCountry == [name |-> <<69, 84, 72>>, country |-> <<67, 72>>]

\* an entry of the list that is no dict
NotADict == [not_a_dict |-> TRUE]

SchoolInputs ==
    {Oxford, RepeatedSubjects, SubjectIsCountry, SubjectIsKeyword, FromAddress,
     Nameless, WithCourses, OtherCountry, NotADict}

(***************************************************************************)
(* Bodies with sections, for the calls of single functions.  A body is a   *)
(* preface and a list of sections; section number n writes its paragraphs  *)
(* with the n-th letter, so that no two paragraphs of a body are equal.    *)
(***************************************************************************)
\* the paragraphs of the given lengths, written with the character c and
\* joined by blank lines
ParagraphsOf(c, lengths) ==
    Concat([k \in 1..Len(lengths) |->
               (IF k = 1 THEN <<>> ELSE <<10, 10>>) \o Rep(c, lengths[k])])

\* "\n## H<n>\n" and the paragraphs
SectionText(n, lengths) ==
    <<10, 35, 35, 32, 72>> \o Decimal(n) \o <<10>> \o ParagraphsOf(96 + n, lengths)

\* the paragraph lengths of the kinds of section: one paragraph of 50, one
\* of 49, paragraphs of 30 and 29, paragraphs of 29 and 30
SectionKinds == {<<50>>, <<49>>, <<30, 29>>, <<29, 30>>}

\* the kinds of the long bodies
LongKinds == {<<50>>, <<49>>}

\* the prefaces: none; two paragraphs after a blank line; a line and a
\* paragraph, without heading marker
Prefaces ==
    {<<>>,
     <<10, 10>> \o ParagraphsOf(120, <<40, 30>>),
     <<73, 110, 116, 114, 111, 10>> \o Rep(121, 60)}

BodyOf(preface, kinds) ==
    preface \o Concat([n \in 1..Len(kinds) |-> SectionText(n, kinds[n])])

SectionLists ==
    SeqsUpTo(SectionKinds, MaxSections) \cup [1..ManySections -> LongKinds]

Bodies == {BodyOf(preface, kinds) : preface \in Prefaces, kinds \in SectionLists}

\* the parts joined by the separator
Join(parts, sep) ==
    Concat([k \in 1..Len(parts) |-> IF k = 1 THEN parts[k] ELSE sep \o parts[k]])

\* tokens of the texts keywords are taken from: two stopwords, a word that
\* is none, an acronym, a ranking and a fee
KeywordTokens ==
    {<<21487, 20197>>, <<30340>>, <<30041, 23416>>, <<65, 66>>, <<31532, 49>>, <<23416, 36027, 58, 57>>}

KeywordTexts == {Join(ts, <<32>>) : ts \in SeqsUpTo(KeywordTokens, MaxTokens)}

\* category labels: two stopwords, a letter, two topics
CategoryTokens == {<<21487, 20197>>, <<30340>>, <<65>>, <<21319, 23416>>, <<32, 28023, 22806, 32>>}

\* articles with category labels, and topic words in title and content
TopicArticles ==
    {Article(title, content, <<>>, Join(cs, <<44>>)) :
        title \in {<<22823, 23416>>, <<21487, 20197>>},
        content \in {<<20837, 23416, 32, 21487, 20197, 32, 73, 66>>, <<30340>>},
        cs \in SeqsUpTo(CategoryTokens, MaxTokens)}

\* the characters of the strings that are normalized: space, newline, a,
\* #, \u3002 and \uff0c
CleanAlphabet == {32, 10, 97, 35, 12290, 65292}

CleanTexts == SeqsUpTo(CleanAlphabet, MaxLen)

\* tokens of the texts school keywords are taken from
SchoolTokens == {<<79, 120, 102, 111, 114, 100>>, <<70, 111, 117, 110, 100, 101, 100>>, <<102, 111, 117, 110, 100, 101, 100>>, <<115, 99, 104, 111, 111, 108>>, <<111, 108, 100>>}

SchoolTexts == {Join(ts, <<32>>) : ts \in SeqsUpTo(SchoolTokens, MaxTokens)}

\* parts of the addresses
AddressTokens ==
    {<<67, 97, 110, 97, 100, 97>>, <<117, 107>>, <<65, 117, 115, 116, 114, 97, 108, 105, 97>>, <<77, 97, 99, 97, 117>>, <<80, 97, 114, 105, 115>>, <<117, 115, 97>>}

\* the address of Scenario B
ScenarioB_address == <<49, 50, 51, 32, 79, 120, 102, 111, 114, 100, 32, 83, 116, 114, 101, 101, 116, 44, 32, 76, 111, 110, 100, 111, 110, 44, 32, 69, 110, 103, 108, 97, 110, 100, 44, 32, 85, 75>>

\* addresses that end in the full name of a country
NamedCountryAddresses ==
    {<<83, 121, 100, 110, 101, 121, 44, 32, 65, 117, 115, 116, 114, 97, 108, 105, 97>>, <<49, 32, 71, 101, 111, 114, 103, 101, 32, 83, 116, 44, 32, 76, 111, 110, 100, 111, 110, 44, 32, 85, 110, 105, 116, 101, 100, 32, 75, 105, 110, 103, 100, 111, 109>>,
     <<66, 111, 115, 116, 111, 110, 44, 32, 85, 110, 105, 116, 101, 100, 32, 83, 116, 97, 116, 101, 115>>, <<66, 101, 105, 106, 105, 110, 103, 44, 32, 67, 104, 105, 110, 97>>, <<75, 111, 119, 108, 111, 111, 110, 44, 32, 72, 111, 110, 103, 32, 75, 111, 110, 103>>}

Addresses ==
    {Join(ts, <<44, 32>>) : ts \in SeqsUpTo(AddressTokens, MaxTokens)}
        \cup {ScenarioB_address} \cup NamedCountryAddresses

\* parts of the subject contents: short sentences, one with a newline after
\* it, words without full stop, a space, sentences of 500 and 1002 characters
ContentTokens ==
    {<<72, 105, 46>>, <<89, 111, 63, 10>>, <<111, 107>>, <<32>>, SentenceOf(97, 500), SentenceOf(98, 1002)}

Contents == {Join(ts, <<32>>) : ts \in SeqsUpTo(ContentTokens, MaxSentences)}

\* the k-th word of three small letters: abz, acz, ...
SmallWord(k) == <<97 + (k \div 5), 97 + (k % 5), 122>>

\* a round: the words number from..to in order, or the stopword alone;
\* the kinds of round
RoundText(round) ==
    IF round.from = 0 THEN <<21487, 20197>>
    ELSE Join([k \in 1..(round.to - round.from + 1) |->
                  SmallWord(round.from + k - 1)], <<32>>)

RoundKinds ==
    {[from |-> 1, to |-> 21], [from |-> 3, to |-> 22], [from |-> 22, to |-> 22],
     [from |-> 0, to |-> 0]}

\* texts of up to MaxRounds rounds
FrequencyTexts ==
    {Join([k \in 1..Len(rs) |-> RoundText(rs[k])], <<32>>) :
        rs \in SeqsUpTo(RoundKinds, MaxRounds)}

\* the titles of the calls
Titles == {<<21319, 23416>>}

(***************************************************************************)
(* The batch operations as state machines.  Each specification runs        *)
(* one of them, or one call of a single function; the variables of the     *)
(* others stay idle.                                                       *)
(***************************************************************************)
VARIABLES
    articles,            \* the argument: the batch of input records
    i,                   \* records the loop has gone through
    optimized_articles,  \* the local list of documents
    log,                 \* what logger.error recorded
    calls,               \* history: the index of every call of _optimize_single_article
    pc,                  \* "loop", "done" (returned) or "raised" (an exception left the function)
    result,              \* the returned dict
    subjects_data,       \* the argument of optimize_for_rag
    subjects_done,       \* subjects the loop has gone through
    optimized_data,      \* the local list of chunks
    subject_log,         \* what logger.error of run recorded
    subject_pc,          \* "loop", "saved" or "raised" (the exception left run)
    rag_file,            \* the content of linkedu_subjects_rag_optimized.json
    schools,             \* data['schools'] of the input file
    schools_done,        \* schools the loop has gone through
    optimized_schools,   \* the local list of optimized schools
    school_log,          \* what logger.error recorded
    school_pc,           \* "loop", "written" or "failed" (the except branch ran)
    output_file,         \* the content of the output file
    fn,                  \* the function called on its own, "none" before the call
    args,                \* its arguments
    ret,                 \* what it returned
    site,                \* the answer of the server for each listing page
    max_pages,           \* the argument of scrape_all_articles
    max_articles,        \* its second argument, 0 for None
    page,                \* the local of get_article_urls
    fetched,             \* history: the listing pages requested, in order
    listed,              \* the local list `articles` of get_article_urls
    article_urls,        \* the local of scrape_all_articles
    processed,           \* articles the loop of scrape_all_articles has gone through
    scraped_articles,    \* its local list
    articles_file,       \* the content of linkedu_articles.json
    articles_rag_file,   \* the content of linkedu_articles_rag_optimized.json
    scrape_pc            \* "listing", "listed", "scraping", "saved" or "nothing"

article_vars == <<articles, i, optimized_articles, log, calls, pc, result>>

subject_vars ==
    <<subjects_data, subjects_done, optimized_data, subject_log, subject_pc, rag_file>>

school_vars ==
    <<schools, schools_done, optimized_schools, school_log, school_pc, output_file>>

call_vars == <<fn, args, ret>>

scrape_vars ==
    <<site, max_pages, max_articles, page, fetched, listed, article_urls,
      processed, scraped_articles, articles_file, articles_rag_file, scrape_pc>>

NoResult == [total_documents |-> 0, documents |-> <<>>]

\* no output file has been written
NoFile == [total_schools |-> 0, schools |-> <<>>]

ArticleIdle ==
    /\ articles = <<>>
    /\ i = 0
    /\ optimized_articles = <<>>
    /\ log = <<>>
    /\ calls = <<>>
    /\ pc = "idle"
    /\ result = NoResult

SubjectIdle ==
    /\ subjects_data = <<>>
    /\ subjects_done = 0
    /\ optimized_data = <<>>
    /\ subject_log = <<>>
    /\ subject_pc = "idle"
    /\ rag_file = <<>>

SchoolIdle ==
    /\ schools = <<>>
    /\ schools_done = 0
    /\ optimized_schools = <<>>
    /\ school_log = <<>>
    /\ school_pc = "idle"
    /\ output_file = NoFile

CallIdle ==
    /\ fn = "none"
    /\ args = <<>>
    /\ ret = <<>>

ArticleInit ==
    /\ articles \in SeqsUpTo(ArticleInputs, MaxBatch)
    /\ i = 0
    /\ optimized_articles = <<>>
    /\ log = <<>>
    /\ calls = <<>>
    /\ pc = "loop"
    /\ result = NoResult

\* the iteration without its try / except: the exception leaves the function
OptimizeStepNoCatch ==
    /\ pc = "loop"
    /\ i < Len(articles)
    /\ calls' = Append(calls, i + 1)
    /\ IF Raises(articles[i + 1])
       THEN pc' = "raised" /\ UNCHANGED <<i, log, optimized_articles>>
       ELSE /\ i' = i + 1
            /\ optimized_articles' =
                   IF ReturnsNone(articles[i + 1]) THEN optimized_articles
                   ELSE Append(optimized_articles,
                               RAG_optimize_single_article(articles[i + 1], i + 1))
            /\ UNCHANGED <<log, pc>>
    /\ UNCHANGED <<articles, result, subject_vars, school_vars, call_vars, scrape_vars>>

\* one iteration of the for loop, with its try / except Exception
OptimizeStep ==
    /\ pc = "loop"
    /\ i < Len(articles)
    /\ calls' = Append(calls, i + 1)
    /\ i' = i + 1
    /\ IF Raises(articles[i + 1])
       THEN \* except Exception as e: logger.error(...); continue
            /\ log' = Append(log, [level |-> "error", index |-> i + 1])
            /\ UNCHANGED optimized_articles
       ELSE \* if optimized: optimized_articles.append(optimized)
            /\ optimized_articles' =
                   IF ReturnsNone(articles[i + 1]) THEN optimized_articles
                   ELSE Append(optimized_articles,
                               RAG_optimize_single_article(articles[i + 1], i + 1))
            /\ UNCHANGED log
    /\ UNCHANGED <<articles, pc, result, subject_vars, school_vars, call_vars, scrape_vars>>

\* the return statement after the loop
Return ==
    /\ pc = "loop"
    /\ i = Len(articles)
    /\ result' = [total_documents |-> Len(optimized_articles),
                  documents |-> optimized_articles]
    /\ pc' = "done"
    /\ UNCHANGED <<articles, i, optimized_articles, log, calls,
                   subject_vars, school_vars, call_vars, scrape_vars>>

SubjectInit ==
    /\ subjects_data \in SeqsUpTo(SubjectInputs, MaxSubjects)
    /\ subjects_done = 0
    /\ optimized_data = <<>>
    /\ subject_log = <<>>
    /\ subject_pc = "loop"
    /\ rag_file = <<>>

\* one iteration of the for loop of optimize_for_rag, called by run: a
\* KeyError leaves optimize_for_rag, run logs it and raises it again
SubjectStep ==
    /\ subject_pc = "loop"
    /\ subjects_done < Len(subjects_data)
    /\ IF SubjectRaises(subjects_data[subjects_done + 1])
       THEN /\ subject_log' = Append(subject_log, [level |-> "error"])
            /\ subject_pc' = "raised"
            /\ UNCHANGED <<subjects_done, optimized_data>>
       ELSE /\ optimized_data' =
                   optimized_data \o SubjectChunks(subjects_data[subjects_done + 1])
            /\ subjects_done' = subjects_done + 1
            /\ UNCHANGED <<subject_log, subject_pc>>
    /\ UNCHANGED <<subjects_data, rag_file, article_vars, school_vars, call_vars, scrape_vars>>

\* return optimized_data, and run saves it
SubjectSave ==
    /\ subject_pc = "loop"
    /\ subjects_done = Len(subjects_data)
    /\ rag_file' = optimized_data
    /\ subject_pc' = "saved"
    /\ UNCHANGED <<subjects_data, subjects_done, optimized_data, subject_log,
                   article_vars, school_vars, call_vars, scrape_vars>>

SchoolInit ==
    /\ schools \in SeqsUpTo(SchoolInputs, MaxSchools)
    /\ schools_done = 0
    /\ optimized_schools = <<>>
    /\ school_log = <<>>
    /\ school_pc = "loop"
    /\ output_file = NoFile

\* one iteration of the for loop of optimize_schools; school.get on an entry
\* that is no dict raises, and the except branch around the whole function
\* logs the error and returns
SchoolStep ==
    /\ school_pc = "loop"
    /\ schools_done < Len(schools)
    /\ IF ~IsDict(schools[schools_done + 1])
       THEN /\ school_log' = Append(school_log, [level |-> "error"])
            /\ school_pc' = "failed"
            /\ UNCHANGED <<schools, schools_done, optimized_schools>>
       ELSE /\ optimized_schools' =
                   Append(optimized_schools,
                          optimized_school(schools[schools_done + 1], schools_done))
            /\ schools' = [schools EXCEPT ![schools_done + 1] = SchoolAfter(@)]
            /\ schools_done' = schools_done + 1
            /\ UNCHANGED <<school_log, school_pc>>
    /\ UNCHANGED <<output_file, article_vars, subject_vars, call_vars, scrape_vars>>

\* final_data is written to the output file
SchoolWrite ==
    /\ school_pc = "loop"
    /\ schools_done = Len(schools)
    /\ output_file' = [total_schools |-> Len(optimized_schools),
                       schools |-> optimized_schools]
    /\ school_pc' = "written"
    /\ UNCHANGED <<schools, schools_done, optimized_schools, school_log,
                   article_vars, subject_vars, call_vars, scrape_vars>>

\* one call of _create_semantic_chunks
Call_create_semantic_chunks ==
    /\ fn = "none"
    /\ \E content \in Bodies, title \in Titles :
           /\ fn' = "_create_semantic_chunks"
           /\ args' = [content |-> content, title |-> title]
           /\ ret' = RAG_create_semantic_chunks(content, title)
    /\ UNCHANGED <<article_vars, subject_vars, school_vars, scrape_vars>>

\* one call of _generate_qa_pairs, with the chunks of the content
Call_generate_qa_pairs ==
    /\ fn = "none"
    /\ \E content \in Bodies, title \in Titles :
           /\ fn' = "_generate_qa_pairs"
           /\ args' = [title |-> title, content |-> content,
                       chunks |-> RAG_create_semantic_chunks(content, title)]
           /\ ret' = RAG_generate_qa_pairs(title, content,
                                           RAG_create_semantic_chunks(content, title))
    /\ UNCHANGED <<article_vars, subject_vars, school_vars, scrape_vars>>

\* one call of _extract_keywords
Call_extract_keywords ==
    /\ fn = "none"
    /\ \E text \in KeywordTexts \cup FrequencyTexts :
           /\ fn' = "_extract_keywords"
           /\ args' = [text |-> text]
           /\ ret' = RAG_extract_keywords(text)
    /\ UNCHANGED <<article_vars, subject_vars, school_vars, scrape_vars>>

\* one call of _extract_comprehensive_topics
Call_extract_comprehensive_topics ==
    /\ fn = "none"
    /\ \E article \in TopicArticles :
           /\ fn' = "_extract_comprehensive_topics"
           /\ args' = [article |-> article]
           /\ ret' = RAG_extract_comprehensive_topics(article)
    /\ UNCHANGED <<article_vars, subject_vars, school_vars, scrape_vars>>

\* one call of RAGOptimizer._clean_text
Call_RAG_clean_text ==
    /\ fn = "none"
    /\ \E text \in CleanTexts :
           /\ fn' = "RAGOptimizer._clean_text"
           /\ args' = [text |-> text]
           /\ ret' = RAG_clean_text(text)
    /\ UNCHANGED <<article_vars, subject_vars, school_vars, scrape_vars>>

\* one call of LinkeduSubjectScraper.clean_text
Call_Subject_clean_text ==
    /\ fn = "none"
    /\ \E text \in CleanTexts :
           /\ fn' = "LinkeduSubjectScraper.clean_text"
           /\ args' = [text |-> text]
           /\ ret' = Subject_clean_text(text)
    /\ UNCHANGED <<article_vars, subject_vars, school_vars, scrape_vars>>

\* one call of SchoolRAGOptimizer._clean_text
Call_School_clean_text ==
    /\ fn = "none"
    /\ \E text \in CleanTexts :
           /\ fn' = "SchoolRAGOptimizer._clean_text"
           /\ args' = [text |-> text]
           /\ ret' = School_clean_text(text)
    /\ UNCHANGED <<article_vars, subject_vars, school_vars, scrape_vars>>

\* two calls of SchoolRAGOptimizer._extract_keywords with one text, as two
\* runs of the optimizer on one input file make them
Call_extract_keywords_twice ==
    /\ fn = "none"
    /\ \E text \in SchoolTexts :
           \E first \in extract_keywords(text), second \in extract_keywords(text) :
               /\ fn' = "SchoolRAGOptimizer._extract_keywords"
               /\ args' = [text |-> text]
               /\ ret' = [first |-> first, second |-> second]
    /\ UNCHANGED <<article_vars, subject_vars, school_vars, scrape_vars>>

\* one call of _extract_country_from_address
Call_extract_country_from_address ==
    /\ fn = "none"
    /\ \E address \in Addresses :
           /\ fn' = "_extract_country_from_address"
           /\ args' = [address |-> address]
           /\ ret' = extract_country_from_address(address)
    /\ UNCHANGED <<article_vars, subject_vars, school_vars, scrape_vars>>

\* one call of optimize_for_rag with a batch of one subject
Call_optimize_for_rag ==
    /\ fn = "none"
    /\ \E content \in Contents :
           /\ fn' = "optimize_for_rag"
           /\ args' = [subjects_data |->
                          <<Subject(<<76, 97, 119>>, <<>>, <<>>, content, <<>>, <<>>)>>]
           /\ ret' = SubjectChunks(Subject(<<76, 97, 119>>, <<>>, <<>>, content, <<>>, <<>>))
    /\ UNCHANGED <<article_vars, subject_vars, school_vars, scrape_vars>>

(***************************************************************************)
(* linkedu_scraper.py: the listing, the articles, and the two files.  The  *)
(* site is an input: each listing page answers with an error or with a row *)
(* of cards, and each article page with an error or with a title and body. *)
(***************************************************************************)
base_url == <<104, 116, 116, 112, 115, 58, 47, 47, 108, 105, 110, 107, 101, 100, 117, 46, 104, 107>>

\* a card of listing page p: its link (empty when there is none), its text
CardOf(p, k, linked) ==
    [href |-> IF linked THEN <<47, 97, 114, 116, 105, 99, 108, 101, 47>> \o Decimal(p) \o <<45>> \o Decimal(k)
              ELSE <<>>,
     text |-> <<21319, 23416>> \o Decimal(p),
     excerpt |-> <<>>,
     categories |-> <<>>]

\* rows of cards: none, cards without link, cards with link
CardRows == {<<>>, <<FALSE>>, <<TRUE>>, <<FALSE, TRUE>>, <<TRUE, TRUE>>}

\* the answers of the server for a listing page
PageAnswers ==
    {[error |-> TRUE, row |-> <<>>]} \cup {[error |-> FALSE, row |-> r] : r \in CardRows}

PageOf(p, answer) ==
    [error |-> answer.error,
     cards |-> [k \in 1..Len(answer.row) |-> CardOf(p, k, answer.row[k])]]

Sites ==
    {[p \in 1..MaxPages |-> PageOf(p, f[p])] : f \in [1..MaxPages -> PageAnswers]}

\* what scrape_article_content returns: None, or a title and a body
FetchOutcomes ==
    {[found |-> FALSE, title |-> <<>>, content |-> <<>>],
     [found |-> TRUE, title |-> <<>>, content |-> <<30003, 35531, 33521, 22283, 22823, 23416, 30340, 26041, 27861>>],
     [found |-> TRUE, title |-> <<25351, 21335>>, content |-> <<>>]}

\* _extract_article_info_from_card returns a dict and not None
Extractable(card) == card.href # <<>> /\ card.text # <<>>

\* the dict _extract_article_info_from_card returns
ArticleInfo(card) ==
    [url |-> IF card.href[1] = 47 THEN base_url \o card.href ELSE card.href,
     title |-> card.text,
     excerpt |-> card.excerpt,
     categories |-> card.categories]

\* the article_info of the cards of a page, in the order of the cards
PageArticles(cards) ==
    Concat([k \in 1..Len(cards) |->
               IF Extractable(cards[k]) THEN <<ArticleInfo(cards[k])>> ELSE <<>>])

\* f"linkedu_{i:04d}" of scrape_all_articles
ArticleId(index) == <<108, 105, 110, 107, 101, 100, 117, 95>> \o Pad4(index)

\* article_data of scrape_all_articles
ArticleData(index, article_info, full_content) ==
    [kind |-> "dict",
     content_str |-> TRUE,
     id |-> ArticleId(index),
     source_url |-> article_info.url,
     title |-> IF full_content.title # <<>> THEN full_content.title
               ELSE article_info.title,
     excerpt |-> article_info.excerpt,
     content |-> full_content.content,
     categories |-> article_info.categories]

\* the documents optimize_articles_for_rag makes of a list of articles
OptimizedArticles(arts) ==
    Concat([k \in 1..Len(arts) |->
               IF Raises(arts[k]) \/ ReturnsNone(arts[k]) THEN <<>>
               ELSE <<RAG_optimize_single_article(arts[k], k)>>])

\* the dict optimize_articles_for_rag returns
OptimizedResult(documents) ==
    [total_documents |-> Len(documents), documents |-> documents]

NoArticlesFile == [total_articles |-> 0, articles |-> <<>>]

ScrapeIdle ==
    /\ site = <<>>
    /\ max_pages = 0
    /\ max_articles = 0
    /\ page = 1
    /\ fetched = <<>>
    /\ listed = <<>>
    /\ article_urls = <<>>
    /\ processed = 0
    /\ scraped_articles = <<>>
    /\ articles_file = NoArticlesFile
    /\ articles_rag_file = NoResult
    /\ scrape_pc = "idle"

\* main has called scrape_all_articles, which has called get_article_urls
ScrapeInit ==
    /\ site \in Sites
    /\ max_pages \in 0..MaxPages
    /\ max_articles \in {0, 1}
    /\ page = 1
    /\ fetched = <<>>
    /\ listed = <<>>
    /\ article_urls = <<>>
    /\ processed = 0
    /\ scraped_articles = <<>>
    /\ articles_file = NoArticlesFile
    /\ articles_rag_file = NoResult
    /\ scrape_pc = "listing"

\* one iteration of the while loop of get_article_urls that goes on to the
\* next page although the page gave no article
FetchListingPageNoBreak ==
    /\ scrape_pc = "listing"
    /\ page <= max_pages
    /\ fetched' = Append(fetched, page)
    /\ IF site[page].error \/ site[page].cards = <<>>
       THEN scrape_pc' = "listed" /\ UNCHANGED <<listed, page>>
       ELSE /\ listed' = listed \o PageArticles(site[page].cards)
            /\ page' = page + 1
            /\ UNCHANGED scrape_pc
    /\ UNCHANGED <<site, max_pages, max_articles, article_urls, processed,
                   scraped_articles, articles_file, articles_rag_file,
                   article_vars, subject_vars, school_vars, call_vars>>

\* one iteration of the while loop of get_article_urls
FetchListingPage ==
    /\ scrape_pc = "listing"
    /\ page <= max_pages
    /\ fetched' = Append(fetched, page)
    /\ IF site[page].error
       THEN \* except Exception as e: logger.error(...); break
            scrape_pc' = "listed" /\ UNCHANGED <<listed, page>>
       ELSE IF site[page].cards = <<>>
       THEN \* if not article_cards: logger.warning(...); break
            scrape_pc' = "listed" /\ UNCHANGED <<listed, page>>
       ELSE /\ listed' = listed \o PageArticles(site[page].cards)
            /\ IF PageArticles(site[page].cards) = <<>>
               THEN \* if page_articles == 0: break
                    scrape_pc' = "listed" /\ UNCHANGED page
               ELSE page' = page + 1 /\ UNCHANGED scrape_pc
    /\ UNCHANGED <<site, max_pages, max_articles, article_urls, processed,
                   scraped_articles, articles_file, articles_rag_file,
                   article_vars, subject_vars, school_vars, call_vars>>

\* the while condition is false: return articles
ListingExhausted ==
    /\ scrape_pc = "listing"
    /\ page > max_pages
    /\ scrape_pc' = "listed"
    /\ UNCHANGED <<site, max_pages, max_articles, page, fetched, listed,
                   article_urls, processed, scraped_articles, articles_file,
                   articles_rag_file,
                   article_vars, subject_vars, school_vars, call_vars>>

\* article_urls = self.get_article_urls(max_pages) and the cut to max_articles
SliceListing ==
    /\ scrape_pc = "listed"
    /\ article_urls' = IF max_articles # 0 THEN Take(listed, max_articles) ELSE listed
    /\ scrape_pc' = "scraping"
    /\ UNCHANGED <<site, max_pages, max_articles, page, fetched, listed,
                   processed, scraped_articles, articles_file, articles_rag_file,
                   article_vars, subject_vars, school_vars, call_vars>>

\* one iteration of the for loop of scrape_all_articles
ScrapeArticle ==
    /\ scrape_pc = "scraping"
    /\ processed < Len(article_urls)
    /\ processed' = processed + 1
    /\ \E full_content \in FetchOutcomes :
           scraped_articles' =
               IF full_content.found
               THEN Append(scraped_articles,
                           ArticleData(processed + 1, article_urls[processed + 1],
                                       full_content))
               ELSE scraped_articles
    /\ UNCHANGED <<site, max_pages, max_articles, page, fetched, listed,
                   article_urls, articles_file, articles_rag_file, scrape_pc,
                   article_vars, subject_vars, school_vars, call_vars>>

\* scrape_all_articles returns; main calls save_to_json when the list is not
\* empty, which writes the RAG-optimized file and the original file
SaveToJson ==
    /\ scrape_pc = "scraping"
    /\ processed = Len(article_urls)
    /\ IF scraped_articles # <<>>
       THEN /\ articles_rag_file' =
                   OptimizedResult(OptimizedArticles(scraped_articles))
            /\ articles_file' = [total_articles |-> Len(scraped_articles),
                                 articles |-> scraped_articles]
            /\ scrape_pc' = "saved"
       ELSE /\ scrape_pc' = "nothing"
            /\ UNCHANGED <<articles_file, articles_rag_file>>
    /\ UNCHANGED <<site, max_pages, max_articles, page, fetched, listed,
                   article_urls, processed, scraped_articles,
                   article_vars, subject_vars, school_vars, call_vars>>

vars == <<article_vars, subject_vars, school_vars, call_vars, scrape_vars>>

\* the article pipeline
Init == ArticleInit /\ SubjectIdle /\ SchoolIdle /\ CallIdle /\ ScrapeIdle

Next == OptimizeStep \/ Return

Spec == Init /\ [][Next]_vars

\* the subject pipeline
SubjectSpecInit ==
    SubjectInit /\ ArticleIdle /\ SchoolIdle /\ CallIdle /\ ScrapeIdle

SubjectNext == SubjectStep \/ SubjectSave

SubjectSpec == SubjectSpecInit /\ [][SubjectNext]_vars

\* the school pipeline
SchoolSpecInit ==
    SchoolInit /\ ArticleIdle /\ SubjectIdle /\ CallIdle /\ ScrapeIdle

SchoolNext == SchoolStep \/ SchoolWrite

SchoolSpec == SchoolSpecInit /\ [][SchoolNext]_vars

\* one call of a single function
CallInit == CallIdle /\ ArticleIdle /\ SubjectIdle /\ SchoolIdle /\ ScrapeIdle

CallNext ==
    \/ Call_create_semantic_chunks
    \/ Call_generate_qa_pairs
    \/ Call_extract_keywords
    \/ Call_extract_comprehensive_topics
    \/ Call_RAG_clean_text
    \/ Call_Subject_clean_text
    \/ Call_School_clean_text
    \/ Call_extract_keywords_twice
    \/ Call_extract_country_from_address
    \/ Call_optimize_for_rag

CallSpec == CallInit /\ [][CallNext]_vars

\* the scraper: main of linkedu_scraper.py
ScrapeSpecInit == ScrapeInit /\ ArticleIdle /\ SubjectIdle /\ SchoolIdle /\ CallIdle

ScrapeNext ==
    \/ FetchListingPage
    \/ ListingExhausted
    \/ SliceListing
    \/ ScrapeArticle
    \/ SaveToJson

ScrapeSpec == ScrapeSpecInit /\ [][ScrapeNext]_vars

\* the scraper, whose get_article_urls goes on as long as it has a step to
\* take
ScrapeFairSpec ==
    ScrapeSpec /\ WF_vars(FetchListingPage) /\ WF_vars(ListingExhausted)

(***************************************************************************)
(* Properties of the article pipeline.                                     *)
(***************************************************************************)
\* the number of documents emitted so far for the record at position k
Emitted(k) ==
    Cardinality({j \in 1..Len(optimized_articles) :
                    optimized_articles[j].id = DocId(k)})

\* an error was logged for the record at position k
Logged(k) == Cardinality({j \in 1..Len(log) : log[j].index = k})

\* a mapping whose text fields are strings
WellTyped(a) == a.kind = "dict" /\ a.content_str

\* a record with a usable title and body
Usable(a) ==
    /\ WellTyped(a)
    /\ RAG_clean_text(a.title) # <<>>
    /\ RAG_clean_text(a.content) # <<>>

\* C1: a record whose normalized title or normalized content is empty yields
\* no Document and no exception (nothing is logged for it); a record whose
\* normalized title and content are both non-empty, and whose processing
\* raises nothing, yields exactly one Document.
C1_SkipOrEmitOne ==
    /\ \A k \in 1..i :
           WellTyped(articles[k]) =>
               /\ Logged(k) = 0
               /\ Emitted(k) = IF Usable(articles[k]) THEN 1 ELSE 0
    /\ pc = "done" => result.documents = optimized_articles

\* a batch in which a record with a non-empty title that normalizes to the
\* empty string was skipped and another record was emitted
C1_Witness ==
    \E k \in 1..i, m \in 1..i :
        /\ WellTyped(articles[k])
        /\ articles[k].title # <<>>
        /\ RAG_clean_text(articles[k].title) = <<>>
        /\ Emitted(k) = 0
        /\ Usable(articles[m])
        /\ Emitted(m) = 1

\* C2: every record left out of the output has a log entry naming it; a
\* record with an empty title yields no Document and exactly one log entry.
C2_ExcludedRecordIsLogged ==
    pc = "done" =>
        \A k \in 1..Len(articles) :
            /\ Emitted(k) = 0 => Logged(k) >= 1
            /\ (WellTyped(articles[k]) /\ articles[k].title = <<>>) =>
                   (Emitted(k) = 0 /\ Logged(k) = 1)

\* the ids the documents of the usable records of batch b have, in input order
UsableIds(b) ==
    LET usable == SelectSeq([k \in 1..Len(b) |-> k], LAMBDA k : Usable(b[k]))
    IN  [j \in 1..Len(usable) |-> DocId(usable[j])]

\* C3: whatever the batch and wherever its bad records are, the loop calls
\* _optimize_single_article once per record, in order, no exception leaves
\* the function, it runs to the end of the batch, and the documents returned
\* are those of the good records, in input order.
C3_BatchSurvivesBadRecords ==
    /\ pc \in {"loop", "done"}
    /\ calls = [k \in 1..i |-> k]
    /\ i <= Len(articles)
    /\ pc = "done" =>
           /\ i = Len(articles)
           /\ [j \in 1..Len(result.documents) |-> result.documents[j].id]
                  = UsableIds(articles)

\* a finished batch of two whose first record raised and whose second
\* record was emitted
C3_Witness ==
    /\ pc = "done"
    /\ Len(articles) = 2
    /\ articles[1].kind = "other"
    /\ Usable(articles[2])
    /\ Len(result.documents) = 1
    /\ Logged(1) = 1

\* the heading texts of Scenario A: \u7c21\u4ecb and \u8cbb\u7528
ScenarioA_headings == << <<31777, 20171>>, <<36027, 29992>> >>

\* C6: the Document of Scenario A has exactly 2 chunks, with the headings
\* \u7c21\u4ecb and \u8cbb\u7528 in this order.
C6_ScenarioATwoChunks ==
    \A k \in 1..i :
        articles[k] = ScenarioA =>
            \A j \in 1..Len(optimized_articles) :
                optimized_articles[j].id = DocId(k) =>
                    LET chunks == optimized_articles[j].semantic_chunks
                    IN  /\ Len(chunks) = 2
                        /\ [c \in 1..Len(chunks) |-> chunks[c].heading]
                               = ScenarioA_headings

\* IELTS, TOEFL, SAT, A-Level, IB
ExamNames ==
    { <<73, 69, 76, 84, 83>>, <<84, 79, 69, 70, 76>>, <<83, 65, 84>>,
      <<65, 45, 76, 101, 118, 101, 108>>, <<73, 66>> }

\* C7: an exam name written in the title or body of an article is one of
\* the topics of its Document.
C7_ExamNamesAreTopics ==
    \A k \in 1..i :
        \A j \in 1..Len(optimized_articles) :
            optimized_articles[j].id = DocId(k) =>
                \A e \in ExamNames :
                    (Contains(articles[k].title, e) \/ Contains(articles[k].content, e))
                        => e \in Range(optimized_articles[j].topics)

\* C8: a Document has at most 20 keywords.
C8_AtMost20Keywords ==
    \A j \in 1..Len(optimized_articles) :
        Len(optimized_articles[j].keywords) <= 20

\* C10: qa_pairs begins with the two title-level pairs: "what is <title>",
\* answered by the first chunk's content (the first 200 characters of the
\* content and an ellipsis without chunks), and "detailed information about
\* <title>", answered by the first 300 characters of the content (with an
\* ellipsis only when the content is longer); so it has at least 2 entries.
C10_TwoTitleLevelPairs ==
    \A j \in 1..Len(optimized_articles) :
        LET d == optimized_articles[j]
            what == IF d.semantic_chunks # <<>> THEN d.semantic_chunks[1].content
                    ELSE Take(d.full_content, 200) \o <<46, 46, 46>>
            detail == IF Len(d.full_content) > 300
                      THEN Take(d.full_content, 300) \o <<46, 46, 46>>
                      ELSE d.full_content
        IN  /\ Len(d.qa_pairs) >= 2
            /\ d.qa_pairs[1].answer = what
            /\ d.qa_pairs[2].answer = detail

(***************************************************************************)
(* Properties of the subject pipeline and of the school pipeline.          *)
(***************************************************************************)
\* the chunks of the given type in a list of chunks
OfType(chunks, type) == SelectSeq(chunks, LAMBDA c : c.type = type)

\* C4: a subject without an expected field is handled with empty defaults:
\* no exception ends the batch, and in the file that is saved every subject
\* of the batch has its basic-info chunk.
C4_MissingFieldDefaults ==
    /\ subject_pc # "raised"
    /\ subject_pc = "saved" =>
           Len(OfType(rag_file, "basic_info")) = Len(subjects_data)

\* C5: a content chunk of the sentence packing has at most 1000 characters,
\* unless it is one single sentence that is itself longer than 1000.
C5_PackedChunkAtMost1000 ==
    \A k \in 1..Len(optimized_data) :
        optimized_data[k].type = "content" =>
            \/ Len(optimized_data[k].content) <= 1000
            \/ Len(SplitSentences(optimized_data[k].content)) = 1

\* C9: search_variations has at most 10 entries and no string twice.
C9_VariationsCappedAndDistinct ==
    \A k \in 1..Len(optimized_schools) :
        LET v == optimized_schools[k].rag_metadata.search_variations
        IN  /\ Len(v) <= 10
            /\ \A a, b \in 1..Len(v) : a # b => v[a] # v[b]

(***************************************************************************)
(* Properties of the single functions.                                     *)
(***************************************************************************)
\* the chunks among the first 5 that have a heading
HeadedFirstFive(chunks) ==
    SelectSeq(Take(chunks, 5), LAMBDA c : c.heading # <<>>)

\* C11: the pairs _generate_qa_pairs returns are one pair per chunk with a
\* non-empty heading among the first 5 chunks, in chunk order, with the
\* chunk's content as answer and the chunk's context label as context; no
\* chunk at position 6 or later produces a pair.
C11_HeadingPairsOfFirstFive ==
    fn = "_generate_qa_pairs" =>
        /\ Len(ret) = Len(HeadedFirstFive(args.chunks))
        /\ \A k \in 1..Len(ret) :
               /\ ret[k].answer = HeadedFirstFive(args.chunks)[k].content
               /\ ret[k].context = HeadedFirstFive(args.chunks)[k].context
        /\ \A k \in 6..Len(args.chunks) :
               \A j \in 1..Len(ret) : ret[j].answer # args.chunks[k].content

\* a call with seven chunks, of which the first two have no heading and the
\* sixth has one, that returned three pairs
C11_Witness ==
    /\ fn = "_generate_qa_pairs"
    /\ Len(args.chunks) >= 7
    /\ args.chunks[1].heading = <<>>
    /\ args.chunks[6].heading # <<>>
    /\ Len(ret) = 3

\* C12: no two chunks of one Document share an id: after the first subject
\* of a batch, the chunk_ids in optimized_data are pairwise different.
C12_ChunkIdsUnique ==
    subjects_done = 1 =>
        \A a, b \in 1..Len(optimized_data) :
            a # b => optimized_data[a].chunk_id # optimized_data[b].chunk_id

\* the chunk is the one of paragraph j of section n (both 0-based) of the
\* sections
ChunkOf(chunk, sections, n, j) ==
    /\ chunk.id = ChunkId(n, j)
    /\ j < Len(Paragraphs(SectionContent(sections[n + 1])))
    /\ chunk.content = Paragraphs(SectionContent(sections[n + 1]))[j + 1]

\* the largest number of paragraphs of a section
MostParagraphs(sections) ==
    CHOOSE m \in 0..Len(Concat(sections)) :
        /\ \A k \in 1..Len(sections) : Len(Paragraphs(SectionContent(sections[k]))) <= m
        /\ \/ m = 0
           \/ \E k \in 1..Len(sections) : Len(Paragraphs(SectionContent(sections[k]))) = m

\* what C13 says of the chunks returned for the sections of a content
ChunksRespectMinimums(chunks, sections) ==
    /\ \A k \in 1..Len(chunks) :
           /\ Len(chunks[k].content) >= 30
           /\ chunks[k].length = Len(chunks[k].content)
           /\ \E n \in 0..(Len(sections) - 1), j \in 0..MostParagraphs(sections) :
                  /\ ChunkOf(chunks[k], sections, n, j)
                  /\ Len(SectionContent(sections[n + 1])) >= 50
    /\ \A n \in 0..(Len(sections) - 1) :
           Len(SectionContent(sections[n + 1])) < 50 =>
               \A k \in 1..Len(chunks), j \in 0..MostParagraphs(sections) :
                   chunks[k].id # ChunkId(n, j)

\* C13: every chunk _create_semantic_chunks returns has a content of at
\* least 30 characters, its length field is the length of its content, and it
\* is a paragraph of a section whose content has at least 50 characters; a
\* section with a shorter content has no chunk.
C13_ChunkAndSectionMinimums ==
    fn = "_create_semantic_chunks" =>
        ChunksRespectMinimums(ret, SplitSections(args.content))

\* a call that returned a chunk of exactly 30 characters and none for a
\* section whose only paragraph has 49 characters
C13_Witness ==
    /\ fn = "_create_semantic_chunks"
    /\ \E k \in 1..Len(ret) : ret[k].length = 30
    /\ \E n \in 1..Len(SplitSections(args.content)) :
           /\ Len(SectionContent(SplitSections(args.content)[n])) = 49
           /\ \A k \in 1..Len(ret) : ret[k].id # ChunkId(n - 1, 0)

\* C14: every chunk emitted for a subject has a non-empty content.
C14_ChunkContentNonEmpty ==
    \A k \in 1..Len(optimized_data) : optimized_data[k].content # <<>>

\* C15: no keyword and no topic is a stopword, and each has at least 2
\* characters.
C15_NoStopwordNoShortEntry ==
    fn \in {"_extract_keywords", "_extract_comprehensive_topics"} =>
        \A k \in 1..Len(ret) : ret[k] \notin stopwords /\ Len(ret[k]) >= 2

\* a call of _extract_keywords on a text with a stopword three times, which
\* is frequent enough for the frequency channel, that returned another keyword
C15_Witness ==
    /\ fn = "_extract_keywords"
    /\ Contains(args.text, <<21487, 20197, 32, 21487, 20197, 32, 21487, 20197>>)
    /\ ret # <<>>

\* C16: each of the three normalizations is idempotent, and returns the
\* empty string for the empty string.
C16_NormalizeIdempotent ==
    /\ fn = "RAGOptimizer._clean_text" =>
           RAG_clean_text(ret) = ret /\ (args.text = <<>> => ret = <<>>)
    /\ fn = "LinkeduSubjectScraper.clean_text" =>
           Subject_clean_text(ret) = ret /\ (args.text = <<>> => ret = <<>>)
    /\ fn = "SchoolRAGOptimizer._clean_text" =>
           School_clean_text(ret) = ret /\ (args.text = <<>> => ret = <<>>)

\* a call of RAGOptimizer._clean_text on "a# " and a following character,
\* where the normalization replaced the # and removed whitespace
C16_Witness ==
    /\ fn = "RAGOptimizer._clean_text"
    /\ Len(args.text) = 4
    /\ SubSeq(args.text, 1, 3) = <<97, 35, 32>>
    /\ ret # <<>>
    /\ ret # args.text

\* C17: two assemblies of one input give the same output: two calls of the
\* school keyword extraction with one text return the same list.
C17_KeywordsDeterministic ==
    fn = "SchoolRAGOptimizer._extract_keywords" => ret.first = ret.second

\* the codes in the order of the claim: UK, US, CA, AU, CN
CodeOrder == <<<<85, 75>>, <<85, 83>>, <<67, 65>>, <<65, 85>>, <<67, 78>>>>

\* b occurs in a, whatever the case of the letters
OccursIgnoringCase(a, b) == Contains(Lower(a), Lower(b))

\* the entries of the table one of whose indicators occurs in the address
EntriesOccurring(address) ==
    {k \in 1..Len(countries) :
        \E n \in 1..Len(countries[k].indicators) :
            OccursIgnoringCase(address, countries[k].indicators[n])}

\* C18: the table is scanned in the order UK, US, CA, AU, CN and the code
\* of the first entry with an indicator that occurs in the address, whatever
\* the case, is returned; the empty string is returned exactly when no
\* indicator occurs; the address of Scenario B gives UK.
C18_FirstIndicatedCountry ==
    /\ [k \in 1..Len(countries) |-> countries[k].code] = CodeOrder
    /\ fn = "_extract_country_from_address" =>
           /\ (ret = <<>>) = (EntriesOccurring(args.address) = {})
           /\ EntriesOccurring(args.address) # {} =>
                  ret = CodeOrder[MinOf(EntriesOccurring(args.address))]
           /\ args.address = ScenarioB_address => ret = CodeOrder[1]

\* a call with an address that names Canada before the uk, which returned UK
C18_Witness ==
    /\ fn = "_extract_country_from_address"
    /\ args.address = <<67, 97, 110, 97, 100, 97, 44, 32, 117, 107>>
    /\ ret = <<85, 75>>

(***************************************************************************)
(* More properties of the article pipeline.                                *)
(***************************************************************************)
\* the document emitted for the record at position k is d
DocumentOf(k, d) == d \in Range(optimized_articles) /\ d.id = DocId(k)

\* the first 200 characters and an ellipsis, or the text when it has no more
CutTo200(s) == IF Len(s) > 200 THEN Take(s, 200) \o <<46, 46, 46>> ELSE s

\* the paragraphs of the text that are longer than 50 and start with no
\* heading marker
EligibleParagraphs(s) ==
    SelectSeq(Paragraphs(s),
              LAMBDA p : Len(p) > 50 /\ ~StartsWithAt(p, 1, <<35, 35>>))

\* the first of the eligible paragraphs cut, or the body cut when none is
SummaryOfBody(body, eligible) ==
    IF eligible # <<>> THEN CutTo200(eligible[1]) ELSE CutTo200(body)

\* what C19 says of a summary, for the normalized excerpt and body
SummaryRule(summary, excerpt, body) ==
    IF excerpt # <<>>
    THEN summary = excerpt
    ELSE /\ Len(summary) <= 203
         /\ summary = SummaryOfBody(body, EligibleParagraphs(body))

\* C19: the summary of a Document is the normalized excerpt when that is
\* non-empty; otherwise the first eligible paragraph of the normalized body
\* cut to 200 characters and an ellipsis, or the body cut so when no
\* paragraph is eligible; without excerpt it has at most 203 characters.
C19_SummaryOfDocument ==
    \A k \in 1..i :
        \A d \in {e \in Range(optimized_articles) : DocumentOf(k, e)} :
            SummaryRule(d.summary, RAG_clean_text(articles[k].excerpt),
                        RAG_clean_text(articles[k].content))

\* a batch with a document whose summary is its excerpt and a document
\* without excerpt whose summary was cut to 203 characters
C19_Witness ==
    \E a, b \in 1..i :
        \E d, e \in Range(optimized_articles) :
            /\ DocumentOf(a, d)
            /\ articles[a].excerpt # <<>>
            /\ d.summary = RAG_clean_text(articles[a].excerpt)
            /\ DocumentOf(b, e)
            /\ articles[b].excerpt = <<>>
            /\ Len(e.summary) = 203

\* the record of Scenario C: a mapping with a textual body, a title that is
\* not empty after normalization, no excerpt, and a body without heading
\* marker that after normalization is not empty and shorter than 30
IsScenarioC(article) ==
    /\ article.kind = "dict"
    /\ article.content_str
    /\ RAG_clean_text(article.title) # <<>>
    /\ article.excerpt = <<>>
    /\ ~Contains(article.content, <<35, 35>>)
    /\ RAG_clean_text(article.content) # <<>>
    /\ Len(RAG_clean_text(article.content)) < 30

\* C20: Scenario C: for a record with a non-empty title, no excerpt and a body
\* without heading marker that is non-empty and shorter than 30 characters
\* after normalization, a Document is emitted, its semantic_chunks is empty
\* and its summary is the whole normalized body.
C20_ScenarioCDocument ==
    \A k \in 1..i :
        IsScenarioC(articles[k]) =>
            \E d \in Range(optimized_articles) :
                /\ DocumentOf(k, d)
                /\ d.semantic_chunks = <<>>
                /\ d.summary = RAG_clean_text(articles[k].content)

\* a processed batch with the short body of Scenario C and the body of 29
\* characters, each with its Document
C20_Witness ==
    \E a, b \in 1..i :
        /\ articles[a] = ShortBody
        /\ articles[b] = AlmostParagraph
        /\ \E d, e \in Range(optimized_articles) :
               /\ DocumentOf(a, d) /\ d.semantic_chunks = <<>>
               /\ DocumentOf(b, e) /\ Len(e.summary) = 29

(***************************************************************************)
(* Frame of the three batch operations.                                    *)
(***************************************************************************)
\* C21: processing a batch changes no input record: no step of
\* optimize_articles_for_rag, optimize_for_rag or optimize_schools changes
\* the list of input records, nested course entries of a school included.
C21_InputRecordsUnchanged ==
    [][/\ articles' = articles
       /\ subjects_data' = subjects_data
       /\ schools' = schools]_vars

\* the chunk belongs to a section that a heading marker introduced: a section
\* after the first of the split, whose first line is its heading
OfMarkedSection(chunk, sections) ==
    \E n \in 1..(Len(sections) - 1), j \in 0..MostParagraphs(sections) :
        /\ chunk.id = ChunkId(n, j)
        /\ chunk.heading = SectionHeading(sections[n + 1])

\* C22: for a body without heading marker every chunk of
\* _create_semantic_chunks has an empty heading and the title as its context
\* label; a chunk has the label "{title} - {heading}" only when a heading
\* marker introduced its section, and its heading is then that section's
\* heading text.
C22_HeadingOnlyFromMarker ==
    fn = "_create_semantic_chunks" =>
        /\ ~Contains(args.content, <<35, 35>>) =>
               \A k \in 1..Len(ret) :
                   /\ ret[k].heading = <<>>
                   /\ ret[k].context = args.title
        /\ \A k \in 1..Len(ret) :
               ret[k].context # args.title =>
                   /\ OfMarkedSection(ret[k], SplitSections(args.content))
                   /\ ret[k].context = args.title \o <<32, 45, 32>> \o ret[k].heading

\* the chunks of type 'content', in the order of the list
ContentChunksOf(chunks) == SelectSeq(chunks, LAMBDA c : c.type = "content")

\* the contents of the chunks
ContentsOf(chunks) == [k \in 1..Len(chunks) |-> chunks[k].content]

\* what C23 says of the content chunks emitted for a cleaned content
PackingPreserves(chunks, cleaned, slug) ==
    /\ Join(ContentsOf(chunks), <<32>>) = cleaned
    /\ cleaned = <<>> => chunks = <<>>
    /\ cleaned # <<>> =>
           /\ chunks # <<>>
           /\ Concat([k \in 1..Len(chunks) |-> SplitSentences(chunks[k].content)])
                  = SplitSentences(cleaned)
    /\ \A k \in 1..Len(chunks) :
           /\ chunks[k].content # <<>>
           /\ chunks[k].chunk_id = slug \o <<95, 99, 111, 110, 116, 101, 110, 116, 95>> \o Decimal(k)

\* C23: sentence packing loses and reorders nothing: the content chunks of
\* a subject, joined by single spaces in emission order, are the cleaned
\* content; the sentences of the chunks are the sentences of the cleaned
\* content, each once; the chunks are numbered 1..n; the last non-empty
\* buffer is emitted, and no chunk when the cleaned content is empty.
C23_PackingLosesNothing ==
    fn = "optimize_for_rag" =>
        PackingPreserves(ContentChunksOf(ret),
                         Subject_clean_text(args.subjects_data[1].content),
                         <<108, 97, 119>>)

\* a call whose content had more than single spaces between its parts and
\* was packed into three chunks
C23_Witness ==
    /\ fn = "optimize_for_rag"
    /\ Subject_clean_text(args.subjects_data[1].content) # args.subjects_data[1].content
    /\ Len(ContentChunksOf(ret)) = 3

\* the tokens of the text that are no stopwords, in order of occurrence
NonStopTokens(text) == SelectSeq(FindAll("word", text), LAMBDA w : w \notin stopwords)

\* the number of occurrences of the token
Occurrences(tokens, w) == Cardinality({k \in 1..Len(tokens) : tokens[k] = w})

\* the number of occurrences of every token, and the place of its first
OccurrencesIn(tokens) == [w \in Range(tokens) |-> Occurrences(tokens, w)]

FirstOccurrenceIn(tokens) ==
    [w \in Range(tokens) |-> MinOf({k \in 1..Len(tokens) : tokens[k] = w})]

\* the tokens ranked before w: the more frequent ones, and the ones as
\* frequent that first occur earlier
RankedBefore(count, first, w) ==
    {v \in DOMAIN count :
        \/ count[v] > count[w]
        \/ count[v] = count[w] /\ first[v] < first[w]}

\* what C24 says of the keywords that no pattern matched
FrequencyChannelRule(keywords, count, first, matched) ==
    /\ \A w \in Range(keywords) \ matched :
           /\ w \in DOMAIN count
           /\ count[w] > 2
           /\ Cardinality(RankedBefore(count, first, w)) < 20
    /\ \A w \in DOMAIN count \ matched :
           count[w] > 2 /\ Cardinality(RankedBefore(count, first, w)) >= 20 =>
               w \notin Range(keywords)

\* C24: a keyword of _extract_keywords that no pattern matched is a token
\* that is no stopword, occurs more than 2 times and is among the 20 most
\* frequent non-stopword tokens, ties broken by first occurrence; a
\* non-stopword token that occurs more than 2 times and is ranked below the
\* 20 first is no keyword of the frequency channel.
C24_FrequencyChannel ==
    fn = "_extract_keywords" =>
        FrequencyChannelRule(ret, OccurrencesIn(NonStopTokens(args.text)),
                             FirstOccurrenceIn(NonStopTokens(args.text)),
                             PatternKeywords(args.text))

\* a call on a text with 21 words of 3 occurrences and the stopword: the
\* 20 first words are keywords, the 21st is not
C24_Witness ==
    /\ fn = "_extract_keywords"
    /\ Occurrences(FindAll("word", args.text), <<21487, 20197>>) = 1
    /\ Occurrences(NonStopTokens(args.text), SmallWord(21)) = 3
    /\ Occurrences(NonStopTokens(args.text), SmallWord(1)) = 3
    /\ Len(ret) = 20
    /\ \A k \in 1..Len(ret) : ret[k] # SmallWord(21)

(***************************************************************************)
(* More properties of the school and article batches.                      *)
(***************************************************************************)
\* the first 3 entries of a list
First3(list) == SubSeq(list, 1, IF Len(list) < 3 THEN Len(list) ELSE 3)

\* the entries of the synonym table for the country code
SynonymsOf(code) ==
    IF \E k \in 1..Len(education_keywords) : education_keywords[k].code = code
    THEN education_keywords[CHOOSE k \in 1..Len(education_keywords) :
                                education_keywords[k].code = code].keywords
    ELSE <<>>

\* the list C25 describes: the name, the name with the country code when one
\* is known, with the first 3 popular subjects, with the first 3 synonyms
VariationsInOrder(name, code, subjects) ==
    <<name>>
        \o (IF code # <<>> THEN <<name \o <<32>> \o code>> ELSE <<>>)
        \o [k \in 1..Len(First3(subjects)) |-> name \o <<32>> \o subjects[k]]
        \o [k \in 1..Len(First3(SynonymsOf(code))) |->
               name \o <<32>> \o SynonymsOf(code)[k]]

\* C25: for every input, search_variations is the bare name first, then the
\* name with the country code when one is known, then the name with each of
\* the first 3 popular subjects, then the name with each of the first 3
\* synonyms of the country code, and nothing else.
C25_VariationsInOrder ==
    \A k \in 1..Len(optimized_schools) :
        optimized_schools[k].rag_metadata.search_variations
            = VariationsInOrder(optimized_schools[k].name,
                                optimized_schools[k].country,
                                optimized_schools[k].popular_subjects)

\* "linkedu_" and the position written with four digits
IdOfPosition(k) ==
    <<108, 105, 110, 107, 101, 100, 117, 95>> \o <<48 + ((k \div 1000) % 10), 48 + ((k \div 100) % 10),
                     48 + ((k \div 10) % 10), 48 + (k % 10)>>

\* the positions of the records with a Document among the documents
PositionsOf(documents) ==
    {k \in 1..Len(articles) :
        \E j \in 1..Len(documents) : documents[j].id = IdOfPosition(k)}

\* what C26 says of the documents got from the records gone through
IdsFollowPositions(documents, done) ==
    /\ \A j \in 1..Len(documents) :
           \E k \in 1..done : documents[j].id = IdOfPosition(k)
    /\ \A a, b \in 1..Len(documents) :
           a < b =>
               /\ documents[a].id # documents[b].id
               /\ \E k, m \in 1..done :
                      /\ k < m
                      /\ documents[a].id = IdOfPosition(k)
                      /\ documents[b].id = IdOfPosition(m)
    /\ \A k \in 1..done : k \in PositionsOf(documents) <=> Usable(articles[k])

\* C26: in the output of optimize_articles_for_rag total_documents is the
\* number of documents; the documents are in input order; their ids are
\* pairwise distinct, each "linkedu_" and the 1-based position of its record
\* in the batch, so that the ids lack exactly the positions of the skipped
\* and the failed records.
C26_CountOrderAndIds ==
    /\ IdsFollowPositions(optimized_articles, i)
    /\ pc = "done" =>
           /\ result.total_documents = Len(result.documents)
           /\ IdsFollowPositions(result.documents, Len(articles))

\* a returned batch of two whose first record was left out: one document,
\* with the id of position 2
C26_Witness ==
    /\ pc = "done"
    /\ Len(articles) = 2
    /\ ~Usable(articles[1])
    /\ result.total_documents = 1
    /\ result.documents[1].id = <<108, 105, 110, 107, 101, 100, 117, 95, 48, 48, 48, 50>>

\* what C27 says of the chunks of a Document, for its normalized body
OneChunkRule(chunks, body) ==
    /\ Len(chunks) <= 1
    /\ Len(body) >= 50 => Len(chunks) = 1 /\ chunks[1].content = body
    /\ Len(body) < 50 => chunks = <<>>

\* C27: every emitted Document has at most one semantic chunk: exactly one
\* when its normalized body has at least 50 characters, none otherwise, and
\* the content of that chunk is the whole normalized body.
C27_AtMostOneChunk ==
    \A k \in 1..i :
        \A d \in {e \in Range(optimized_articles) : DocumentOf(k, e)} :
            OneChunkRule(d.semantic_chunks, RAG_clean_text(articles[k].content))

\* a batch with the Document of the body of 50 characters, with one chunk,
\* and the Document of the body of 49, with none
C27_Witness ==
    \E a, b \in 1..i :
        \E d, e \in Range(optimized_articles) :
            /\ articles[a] = FiftyBody
            /\ DocumentOf(a, d)
            /\ Len(d.semantic_chunks) = 1
            /\ articles[b] = FortyNineBody
            /\ DocumentOf(b, e)
            /\ e.semantic_chunks = <<>>

\* the full English names of the table countries, each with its code
CountryNames ==
    << [name |-> <<85, 110, 105, 116, 101, 100, 32, 75, 105, 110, 103, 100, 111, 109>>, code |-> <<85, 75>>],
       [name |-> <<85, 110, 105, 116, 101, 100, 32, 83, 116, 97, 116, 101, 115>>, code |-> <<85, 83>>],
       [name |-> <<67, 97, 110, 97, 100, 97>>, code |-> <<67, 65>>],
       [name |-> <<65, 117, 115, 116, 114, 97, 108, 105, 97>>, code |-> <<65, 85>>],
       [name |-> <<67, 104, 105, 110, 97>>, code |-> <<67, 78>>],
       [name |-> <<72, 111, 110, 103, 32, 75, 111, 110, 103>>, code |-> <<67, 78>>],
       [name |-> <<77, 97, 99, 97, 117>>, code |-> <<67, 78>>] >>

\* the names of CountryNames that occur in the address
NamesIn(address) ==
    {k \in 1..Len(CountryNames) : Contains(address, CountryNames[k].name)}

\* C29: for an address that contains the full English name of exactly one
\* table country and no other country's name, _extract_country_from_address
\* returns the code of that country ("Sydney, Australia" gives "AU", "Macau"
\* gives "CN").
C29_NamedCountry ==
    fn = "_extract_country_from_address" =>
        \A k \in NamesIn(args.address) :
            NamesIn(args.address) = {k} => ret = CountryNames[k].code

(***************************************************************************)
(* Properties of the article scraper.                                      *)
(***************************************************************************)
\* C28: the id of an article in the RAG-optimized file written by
\* save_to_json equals the id of the same article (the one with the same
\* source_url) in the original file.
C28_SameIdInBothFiles ==
    scrape_pc = "saved" =>
        \A d \in Range(articles_rag_file.documents) :
            \A a \in Range(articles_file.articles) :
                d.source_url = a.source_url => d.id = a.id

\* the page has no article to give: its fetch fails, it has no card, or no
\* card of it is extractable
GivesNothing(p) == site[p].error \/ PageArticles(site[p].cards) = <<>>

\* the first page up to max_pages that gives nothing, max_pages + 1 when
\* there is none
StoppingPage ==
    CHOOSE p \in 1..(max_pages + 1) :
        /\ p = max_pages + 1 \/ GivesNothing(p)
        /\ \A q \in 1..(p - 1) : ~GivesNothing(q)

\* the articles of the pages 1..n, in page order
ArticlesOfPages(n) == Concat([p \in 1..n |-> PageArticles(site[p].cards)])

\* at most max_pages pages are fetched, in the order 1, 2, ... and none
\* twice, none after the stopping page; what get_article_urls returns is the
\* articles of the pages before the stopping page, in page order
ListingRule(stop) ==
    /\ Len(fetched) <= max_pages
    /\ fetched = [k \in 1..Len(fetched) |-> k]
    /\ Len(fetched) <= stop
    /\ scrape_pc # "listing" =>
           /\ Len(fetched) = IF stop <= max_pages THEN stop ELSE max_pages
           /\ listed = ArticlesOfPages(stop - 1)

\* C30: get_article_urls always terminates, after fetching at most max_pages
\* listing pages in the order 1, 2, ... with no page fetched twice; it stops
\* at the first page whose fetch fails or that yields no card or no
\* extractable article, and returns the articles collected from the pages
\* before the stopping page, in page order.
C30_ListingTerminates ==
    /\ [](scrape_pc # "idle" => ListingRule(StoppingPage))
    /\ <>(scrape_pc # "listing")

\* get_article_urls has returned the articles of page 1 after the fetch of
\* page 2 failed
C30_Witness ==
    /\ scrape_pc = "listed"
    /\ max_pages >= 2
    /\ fetched = <<1, 2>>
    /\ site[2].error
    /\ listed # <<>>
    /\ listed = PageArticles(site[1].cards)

====
